---- MODULE Spec2Model ----
(***************************************************************************)
(* Wiremap: the resolution engine (block proxies and wires), the bootstrap *)
(* wireUp with its asynchronous pre-pass, and the unit / block predicates  *)
(* they rest on.                                                           *)
(*                                                                         *)
(* A path string is kept as the sequence of its dot-separated segments     *)
(* (String.prototype.split(".")): "" is <<"">>, "a.b" is <<"a","b">>,      *)
(* "." is <<"","">>, ".." is <<"","","">> and ".b" is <<"","b">>.          *)
(* null / undefined is the empty sequence, which is no string.             *)
(***************************************************************************)
EXTENDS Integers, Sequences, FiniteSets, TLC

VARIABLES
  tree,      \* the definition tree the caller holds
  phase,     \* "init", "prepass" (wireUp's promise is pending) or "ready"
  returned,  \* what wireUp returned: "none" yet, "wire" or "promise"
  hub,       \* blockDefinitions: the flattened path -> definitions map
  cache,     \* the session's Wcache
  heap,      \* the block proxies created so far, with their targets
  stack,     \* the factory functions being executed, innermost last
  calls,     \* per unit, how often its function was invoked or bound
  cursor,    \* the position of resolveAsyncFactories in its loops
  awaiting,  \* the promise resolveAsyncFactories is suspended on
  defined,   \* the latest call of defineUnit and how it ended
  plugged,   \* the latest call of plug and how it ended
  mocked,    \* the latest call of mockUnit and of the wire it made
  parked,    \* the second wireUp session, while the first one runs
  thrown,    \* the latest exception a unit function threw, and to whom
  made       \* the latest call of defineCircuit or mapBlocks and what it returned

vars == <<tree, phase, returned, hub, cache, heap, stack, calls, cursor,
          awaiting, defined, plugged, mocked, parked, thrown, made>>

\* what a step of the running session has no access to
outside == <<defined, plugged, mocked, parked, made>>

-----------------------------------------------------------------------------
(* Bounds of the exploration *)

\* block proxies created in one session
MaxProxies == 3
\* nested factory executions
MaxDepth == 2
\* invocations of one unit's function
MaxCalls == 2

-----------------------------------------------------------------------------
(* Strings as segment sequences *)

Null == <<>>
RootPath == <<"">>
LocalKey == <<"", "">>
ParentKey == <<"", "", "">>

Front(s) == SubSeq(s, 1, Len(s) - 1)

Truthy(s) == s # Null /\ s # RootPath

startsWithDot(key) == Len(key) >= 2 /\ key[1] = ""

\* localPath + key, for a key that starts with "."
Concat(localPath, key) == localPath \o Tail(key)

\* blockPath === "" ? prop : `${blockPath}.${prop}`
FinalKey(blockPath, prop) ==
  IF blockPath = RootPath THEN <<prop>> ELSE blockPath \o <<prop>>

\* Own and inherited properties of the empty object literal that backs a proxy
ObjectProtoKeys == {"toString", "constructor"}

-----------------------------------------------------------------------------
(* Definition trees *)

Item(t, enc, fn, afn, b, f, a, p, id, entries) ==
  [t |-> t, enc |-> enc, fn |-> fn, afn |-> afn, isBound |-> b,
   isFactory |-> f, isAsync |-> a, isPrivate |-> p, id |-> id,
   entries |-> entries]

\* tagBlock(): { [blockSymbol]: true }
tagBlock == Item("tag", "", FALSE, FALSE, FALSE, FALSE, FALSE, FALSE, "$", <<>>)

\* a value that is neither a function nor a defineUnit wrapper
Val(id) == Item("unit", "value", FALSE, FALSE, FALSE, FALSE, FALSE, FALSE, id, <<>>)

\* a function carrying inline marker properties; afn: it returns a promise
Fn(id, afn, b, f, a, p) == Item("unit", "func", TRUE, afn, b, f, a, p, id, <<>>)

\* a hashmap literal; a block when one of its entries is "$": tagBlock()
Map(entries) == Item("map", "", FALSE, FALSE, FALSE, FALSE, FALSE, FALSE, "", entries)

E(key, item) == [key |-> key, item |-> item]

HasKey(m, key) == \E i \in 1..Len(m.entries) : m.entries[i].key = key

Get(m, key) ==
  m.entries[CHOOSE i \in 1..Len(m.entries) : m.entries[i].key = key].item

Keys(m) == [i \in 1..Len(m.entries) |-> m.entries[i].key]

InSeq(x, s) == \E i \in 1..Len(s) : s[i] = x

-----------------------------------------------------------------------------
(* Unit model *)

isFunction(unit) == unit.t = "unit" /\ unit.enc = "func"

isUnitDef(def) == def.t = "unit" /\ def.enc = "def"

\* only the bound marker is tested
defineUnitThrowsIfBound(fn, b, f, a) == b /\ ~fn

defineUnitThrows(fn, b, f, a) == (b \/ f \/ a) /\ ~fn

\* the wrapper defineUnit returns when it does not throw
defineUnit(id, fn, afn, b, f, a, p) ==
  Item("unit", "def", fn, afn, b, f, a, p, id, <<>>)

\* whatever has the property is private
isPrivateOfAny(unit) == unit.isPrivate

isPrivate(unit) ==
  IF isFunction(unit) THEN unit.isPrivate
  ELSE IF isUnitDef(unit) THEN unit.isPrivate
  ELSE FALSE

isBoundFunc(unit) == isFunction(unit) /\ unit.isBound

isFactoryFunc(unit) == isFunction(unit) /\ unit.isFactory

isAsyncFactoryFunc(unit) == isFunction(unit) /\ unit.isFactory /\ unit.isAsync

isBoundDef(def) == isUnitDef(def) /\ def.fn /\ def.isBound

isFactoryDef(def) == isUnitDef(def) /\ def.fn /\ def.isFactory

isAsyncFactoryDef(def) == isUnitDef(def) /\ def.fn /\ def.isFactory /\ def.isAsync

-----------------------------------------------------------------------------
(* Block model *)

itemIsBlock(item) ==
  /\ item.t = "map"
  /\ HasKey(item, "$")
  /\ Get(item, "$").t = "tag"

\* the private units are not left out of the public list
getBlockUnitKeysAll(blockDef, local) ==
  LET keep(key) == key # "$" /\ ~itemIsBlock(Get(blockDef, key))
  IN SelectSeq(Keys(blockDef), keep)

getBlockUnitKeys(blockDef, local) ==
  LET keep(key) ==
        /\ key # "$"
        /\ ~itemIsBlock(Get(blockDef, key))
        /\ (local \/ ~isPrivate(Get(blockDef, key)))
  IN SelectSeq(Keys(blockDef), keep)

hasUnits(item) ==
  \E i \in 1..Len(item.entries) :
    item.entries[i].key # "$" /\ ~itemIsBlock(item.entries[i].item)

hasBlocks(item) ==
  item.t = "map" /\ \E i \in 1..Len(item.entries) : itemIsBlock(item.entries[i].item)

\* mapped[key] = def on an insertion-ordered object
Assign(mapped, key, def) ==
  IF \E i \in 1..Len(mapped) : mapped[i].path = key
  THEN [i \in 1..Len(mapped) |->
          IF mapped[i].path = key THEN [path |-> key, def |-> def] ELSE mapped[i]]
  ELSE Append(mapped, [path |-> key, def |-> def])

RECURSIVE AssignAll(_, _)
AssignAll(mapped, more) ==
  IF more = <<>> THEN mapped
  ELSE AssignAll(Assign(mapped, Head(more).path, Head(more).def), Tail(more))

RECURSIVE mapBlocks(_, _)
mapBlocks(blocks, prefix) ==
  LET F[i \in 0..Len(blocks.entries)] ==
        IF i = 0 THEN <<>>
        ELSE
          LET key == blocks.entries[i].key
              block == blocks.entries[i].item
              finalKey == IF Truthy(prefix) THEN prefix \o <<key>> ELSE <<key>>
              own == IF hasUnits(block) THEN Assign(F[i-1], finalKey, block)
                     ELSE F[i-1]
          IN IF ~itemIsBlock(block) THEN F[i-1]
             ELSE IF hasBlocks(block)
                  THEN AssignAll(own, mapBlocks(block, finalKey))
                  ELSE own
  IN F[Len(blocks.entries)]

\* block.ts: the entries of a block that are no blocks
filterBlocks(block) ==
  [block EXCEPT !.entries = SelectSeq(@, LAMBDA e : ~itemIsBlock(e.item))]

blockHasUnits(item) ==
  \E i \in 1..Len(item.entries) :
    item.entries[i].key # "$" /\ ~itemIsBlock(item.entries[i].item)

\* the descendants of a block without units are not visited
RECURSIVE mapBlocksOfUnitOwners(_, _)
mapBlocksOfUnitOwners(blocks, prefix) ==
  LET F[i \in 0..Len(blocks.entries)] ==
        IF i = 0 THEN <<>>
        ELSE
          LET key == blocks.entries[i].key
              block == blocks.entries[i].item
              finalKey == IF Truthy(prefix) THEN prefix \o <<key>> ELSE <<key>>
          IN IF ~itemIsBlock(block) \/ ~blockHasUnits(block) THEN F[i-1]
             ELSE AssignAll(Assign(F[i-1], finalKey, filterBlocks(block)),
                            mapBlocksOfUnitOwners(block, finalKey))
  IN F[Len(blocks.entries)]

\* block.ts: the flattening pass that defineCircuit uses
RECURSIVE blockMapBlocks(_, _)
blockMapBlocks(blocks, prefix) ==
  LET F[i \in 0..Len(blocks.entries)] ==
        IF i = 0 THEN <<>>
        ELSE
          LET key == blocks.entries[i].key
              block == blocks.entries[i].item
              finalKey == IF Truthy(prefix) THEN prefix \o <<key>> ELSE <<key>>
              own == IF blockHasUnits(block)
                     THEN Assign(F[i-1], finalKey, filterBlocks(block))
                     ELSE F[i-1]
          IN IF ~itemIsBlock(block) THEN F[i-1]
             ELSE IF hasBlocks(block)
                  THEN AssignAll(own, blockMapBlocks(block, finalKey))
                  ELSE own
  IN F[Len(blocks.entries)]

defineBlock(defs) ==
  IF HasKey(defs, "$") THEN defs
  ELSE [defs EXCEPT !.entries = Append(@, E("$", tagBlock))]

\* the names that follow the block-namespace marker in a key "$name"
DollarNames == {"good", "other", "uno", "sub", "otro"}

\* key.startsWith("$")
isPrefixedKey(key) == key = "$" \/ \E name \in DollarNames : key = "$" \o name

\* key.slice(1)
slice1(key) ==
  IF key = "$" THEN "" ELSE CHOOSE name \in DollarNames : key = "$" \o name

\* an object that is not null; a defineUnit wrapper is one, a function is not
isHashmap(item) == item.t \in {"map", "tag"} \/ isUnitDef(item)

\* typeof x === "object" && x !== null
isObject(item) == item.t \in {"map", "tag"} \/ isUnitDef(item)

isPlugin(item) ==
  /\ isObject(item)
  /\ item.t = "map"
  /\ HasKey(item, "__isPlugin")
  /\ HasKey(item, "__circuit")
  /\ HasKey(item, "__connector")
  /\ Get(item, "__isPlugin") = Val("true")
  /\ isObject(Get(item, "__circuit"))
  /\ isObject(Get(item, "__connector"))

\* item.__adapter
AdapterOf(item) ==
  IF HasKey(item, "__adapter") THEN Get(item, "__adapter") ELSE Val("undefined")

\* extractPluginAdapters(block, adapters, parentKey): the adapters map after
\* the walk, as the sequence of its entries
RECURSIVE extractPluginAdapters(_, _, _)
extractPluginAdapters(block, adapters, parentKey) ==
  LET F[i \in 0..Len(block.entries)] ==
        IF i = 0 THEN adapters
        ELSE
          LET key == block.entries[i].key
              item == block.entries[i].item
              isPrefixed == isPrefixedKey(key)
              finalKey == IF isPrefixed THEN slice1(key) ELSE key
              path == IF parentKey # "" THEN parentKey \o "." \o finalKey ELSE finalKey
              inner == Get(Get(item, "__circuit"), "__pluginAdapters").entries
          IN IF key = "$" \/ ~isHashmap(item) THEN F[i-1]
             ELSE IF isPlugin(item)
                  THEN AssignAll(Assign(F[i-1], path, AdapterOf(item)),
                                 [j \in 1..Len(inner) |->
                                    [path |-> path \o "." \o inner[j].key,
                                     def |-> inner[j].item]])
                  ELSE IF isPrefixed \/ itemIsBlock(item)
                       THEN extractPluginAdapters(item, F[i-1], finalKey)
                       ELSE F[i-1]
  IN F[Len(block.entries)]

\* { ...mainBlock, "": defineBlock(mainBlock) }, the hub made of it, the
\* inputs as they were given, and the adapters found in mainBlock
defineCircuit(mainBlock, inputs) ==
  LET target == [mainBlock EXCEPT !.entries = Append(@, E("", defineBlock(mainBlock)))]
  IN [__hub |-> blockMapBlocks(target, Null),
      __inputs |-> inputs,
      __pluginAdapters |-> extractPluginAdapters(mainBlock, <<>>, "")]

\* no inputs declared
NoInputs == Map(<<>>)

\* a dot-joined path
RECURSIVE Join(_)
Join(path) == IF Len(path) = 1 THEN path[1] ELSE path[1] \o "." \o Join(Tail(path))

\* a circuit as the object a tree holds:
\* { __isCircuit, __hub, __inputs, __pluginAdapters }
CircuitObject(circuit) ==
  Map(<<E("__isCircuit", Val("true")),
        E("__hub", Map([i \in 1..Len(circuit.__hub) |->
                          E(Join(circuit.__hub[i].path), circuit.__hub[i].def)])),
        E("__inputs", circuit.__inputs),
        E("__pluginAdapters",
          Map([i \in 1..Len(circuit.__pluginAdapters) |->
                 E(circuit.__pluginAdapters[i].path, circuit.__pluginAdapters[i].def)]))>>)

\* the flattening that knows the "$name" keys; its paths are dot-joined
\* strings and "" stands for no prefix

isBlock(item) ==
  /\ item.t = "map"
  /\ HasKey(item, "$")
  /\ Get(item, "$").t = "tag"

isCircuit(target) ==
  /\ isObject(target)
  /\ target.t = "map"
  /\ HasKey(target, "__isCircuit")
  /\ Get(target, "__isCircuit") = Val("true")
  /\ HasKey(target, "__hub")
  /\ isHashmap(Get(target, "__hub"))
  /\ HasKey(target, "__inputs")
  /\ isHashmap(Get(target, "__inputs"))

\* the entries whose key has no "$" in front and whose item is no tagged block
extractUnits(block) ==
  LET keep(e) == ~isPrefixedKey(e.key) /\ ~isBlock(e.item)
  IN Map(SelectSeq(block.entries, keep))

\* hasBlocks of the same file: a "$name" object counts as a block
hasInlineBlocks(item) ==
  /\ isObject(item)
  /\ \E i \in 1..Len(item.entries) :
       \/ /\ item.entries[i].key # "$"
          /\ isPrefixedKey(item.entries[i].key)
          /\ isObject(item.entries[i].item)
       \/ isBlock(item.entries[i].item)

\* the entries of an embedded circuit's hub, under finalKey
hubUnder(finalKey, finalBlock) ==
  [j \in 1..Len(finalBlock.entries) |->
     [path |-> IF finalBlock.entries[j].key = "" THEN finalKey
               ELSE finalKey \o "." \o finalBlock.entries[j].key,
      def |-> finalBlock.entries[j].item]]

\* the "$name" keys are taken for plain units: only tagged blocks are blocks
RECURSIVE mapInlineBlocksTagged(_, _)
mapInlineBlocksTagged(blocks, prefix) ==
  LET F[i \in 0..Len(blocks.entries)] ==
        IF i = 0 THEN <<>>
        ELSE
          LET key == blocks.entries[i].key
              block == blocks.entries[i].item
              finalKey == IF prefix # "" THEN prefix \o "." \o key ELSE key
              units == Map(SelectSeq(block.entries,
                                     LAMBDA e : e.key # "$" /\ ~isBlock(e.item)))
              own == IF Len(units.entries) > 0
                     THEN Assign(F[i-1], finalKey, units)
                     ELSE F[i-1]
          IN IF key = "$" \/ ~isHashmap(block) THEN F[i-1]
             ELSE IF ~isBlock(block) /\ ~isCircuit(block) THEN F[i-1]
             ELSE IF isCircuit(block)
                  THEN AssignAll(F[i-1], hubUnder(finalKey, Get(block, "__hub")))
                  ELSE IF hasInlineBlocks(block)
                       THEN AssignAll(own, mapInlineBlocksTagged(block, finalKey))
                       ELSE own
  IN F[Len(blocks.entries)]

\* mapBlocks(blocks, prefix) of the same file
RECURSIVE mapInlineBlocks(_, _)
mapInlineBlocks(blocks, prefix) ==
  LET F[i \in 0..Len(blocks.entries)] ==
        IF i = 0 THEN <<>>
        ELSE
          LET key == blocks.entries[i].key
              block == blocks.entries[i].item
              isDollarBlock == isPrefixedKey(key)
              itemIsCircuit == isCircuit(block)
              itemIsBlk == isDollarBlock \/ isBlock(block)
              name == IF isDollarBlock THEN slice1(key) ELSE key
              finalKey == IF prefix # "" THEN prefix \o "." \o name ELSE name
              units == extractUnits(block)
              own == IF Len(units.entries) > 0
                     THEN Assign(F[i-1], finalKey, units)
                     ELSE F[i-1]
          IN IF key = "$" \/ ~isHashmap(block) THEN F[i-1]
             ELSE IF ~isDollarBlock /\ ~itemIsBlk /\ ~itemIsCircuit THEN F[i-1]
             ELSE IF itemIsCircuit
                  THEN AssignAll(F[i-1], hubUnder(finalKey, Get(block, "__hub")))
                  ELSE IF hasInlineBlocks(block)
                       THEN AssignAll(own, mapInlineBlocks(block, finalKey))
                       ELSE own
  IN F[Len(blocks.entries)]

\* plug has no throw statement
plugThrows(circuit, adapter) == FALSE

\* plug(circuit, adapter): the plugin record, made without a look at either
plug(circuit, adapter) ==
  Map(<<E("__isPlugin", Val("true")),
        E("__circuit", circuit),
        E("__adapter", adapter),
        E("__inputs", Map(<<>>))>>)

HubHas(h, path) == \E i \in 1..Len(h) : h[i].path = path

HubGet(h, path) == h[CHOOSE i \in 1..Len(h) : h[i].path = path].def

\* a path without a dot has the root as its parent
extractParentPathOrRoot(localPath) ==
  IF Len(localPath) > 1 THEN Front(localPath) ELSE RootPath

extractParentPath(localPath) ==
  IF Len(localPath) > 1 THEN Front(localPath) ELSE Null

-----------------------------------------------------------------------------
(* The definition trees the exploration starts from *)

\* a tagged tree: public, private, bound and factory units on three levels
TreeSync ==
  Map(<<E("$", tagBlock),
        E("valor", Val("valor")),
        E("a", Map(<<E("$", tagBlock),
                     E("pub", Fn("pub", FALSE, TRUE, FALSE, FALSE, FALSE)),
                     E("priv", Fn("priv", FALSE, FALSE, FALSE, FALSE, TRUE)),
                     E("b", Map(<<E("$", tagBlock),
                                  E("secret", defineUnit("secret", FALSE, FALSE, FALSE, FALSE, FALSE, TRUE)),
                                  E("deep", defineUnit("deep", TRUE, FALSE, FALSE, TRUE, FALSE, FALSE))>>))>>))>>)

\* an untagged tree with two asyncFactory units, one per encoding
TreeAsync ==
  Map(<<E("keyName", Val("keyName")),
        E("late", Fn("late", TRUE, FALSE, TRUE, TRUE, FALSE)),
        E("a", Map(<<E("$", tagBlock),
                     E("early", defineUnit("early", TRUE, TRUE, FALSE, TRUE, TRUE, FALSE))>>))>>)

\* a block that owns no unit above the only asyncFactory, and a unit named
\* like a property every object inherits
TreeDeep ==
  Map(<<E("$", tagBlock),
        E("toString", Val("toString")),
        E("c", Map(<<E("$", tagBlock),
                     E("d", Map(<<E("$", tagBlock),
                                  E("x", defineUnit("x", TRUE, TRUE, FALSE, TRUE, TRUE, FALSE))>>))>>))>>)

\* a root that owns no unit
TreeBare ==
  Map(<<E("$", tagBlock),
        E("n", Map(<<E("$", tagBlock), E("k", Val("k"))>>))>>)

\* the inputs a circuit declares: blocks named x and y
InputX == E("x", Map(<<E("$", tagBlock), E("v", Val("v"))>>))
InputY == E("y", Map(<<E("$", tagBlock), E("w", Val("w"))>>))

\* the block a plugged circuit is made of: one nested block with a factory
PluggedBlock ==
  Map(<<E("inner", Map(<<E("$", tagBlock),
                         E("f", Fn("f", FALSE, FALSE, TRUE, FALSE, FALSE))>>))>>)

\* the circuits handed to plug, by the inputs they require
Circuits ==
  {CircuitObject(defineCircuit(PluggedBlock, Map(inputs))) :
     inputs \in {<<>>, <<InputX>>, <<InputX, InputY>>}}

\* the adapters handed to plug
Adapters ==
  {Map(<<>>),
   Map(<<E("x", Val("foo"))>>),
   Map(<<E("x", Val("foo")), E("y", Val("bar"))>>)}

\* a parent tree with the block foo and, plugged in under p, a circuit that
\* requires the input x
TreePlug ==
  Map(<<E("$", tagBlock),
        E("foo", Map(<<E("$", tagBlock), E("v", Val("v"))>>)),
        E("p", plug(CircuitObject(defineCircuit(PluggedBlock, Map(<<InputX>>))),
                    Map(<<E("x", Val("foo"))>>)))>>)

Trees == {TreeSync, TreeAsync, TreeDeep, TreeBare, TreePlug}

\* the trees of two sessions side by side: a value and a factory, and an
\* asyncFactory
TreeOne ==
  Map(<<E("$", tagBlock),
        E("v", Val("v")),
        E("f", Fn("f", FALSE, FALSE, TRUE, FALSE, FALSE))>>)

TreeOneAsync ==
  Map(<<E("$", tagBlock),
        E("g", defineUnit("g", TRUE, TRUE, FALSE, TRUE, TRUE, FALSE))>>)

TwoTrees == {TreeOne, TreeOneAsync}

-----------------------------------------------------------------------------
(* Values, errors and maps *)

Put(m, k, v) == [x \in DOMAIN m \cup {k} |-> IF x = k THEN v ELSE m[x]]

Has(m, k) == k \in DOMAIN m

EmptyMap == << >>

\* the wire function getWire builds for localPath
Wire(localPath) == [wpath |-> localPath, gen |-> 1]
NoWire == Wire(Null)

\* vt: "decl" the declared value, "bound" the n-th function bound to wire,
\* "ret" what the n-th call with wire returned or resolved to, "promise" the
\* promise the n-th call returned, "inherited" a property of Object.prototype
Value(vt, id, wire, n) == [vt |-> vt, id |-> id, wire |-> wire, n |-> n]
NoValue == Value("none", "", NoWire, 0)

\* the value is stored as the function returned it
NotAwaited(v) == v

\* what an `await` of the value yields
Awaited(v) == IF v.vt = "promise" THEN [v EXCEPT !.vt = "ret"] ELSE v

Err(kind, path, name) == [kind |-> kind, path |-> path, name |-> name]
NoErr == Err("", Null, Null)

\* `Block '${blockPath}' has no unit named '${prop}'`
NoUnitNamed(blockPath, prop) ==
  Err("Block '%path' has no unit named '%name'", blockPath, <<prop>>)

\* `Unit ${key} not found from block "${localPath}"`
NotFound(key, localPath) ==
  Err("Unit %name not found from block \"%path\"", localPath, key)

\* 'Block ".." does not exist'
NoParent == Err("Block \"..\" does not exist", Null, Null)

\* Object.keys(undefined)
TypeError == Err("TypeError", Null, Null)

\* no second session
NoSession == [phase |-> "none"]

\* one cache object for the module: a session opened while another one is
\* parked gets the maps of that one
sharedCacheObject ==
  IF parked = NoSession
  THEN [unit |-> EmptyMap, wire |-> EmptyMap, proxy |-> EmptyMap, localProxy |-> EmptyMap]
  ELSE parked.cache

createCacheObject ==
  [unit |-> EmptyMap, wire |-> EmptyMap, proxy |-> EmptyMap, localProxy |-> EmptyMap]

\* the place of a cache before wireUp has made one
NoCache ==
  [unit |-> EmptyMap, wire |-> EmptyMap, proxy |-> EmptyMap, localProxy |-> EmptyMap]

-----------------------------------------------------------------------------
(* Resolution engine *)

\* the identity of a proxy object: the gen-th one made for a block and view
PxId(blockPath, local, gen) == [path |-> blockPath, local |-> local, gen |-> gen]
NoPx == PxId(Null, FALSE, 0)

NewPx(hp, blockPath, local) ==
  PxId(blockPath, local,
       1 + Cardinality({i \in DOMAIN hp : i.path = blockPath /\ i.local = local}))

\* what createBlockProxy closes over, and the target object behind the proxy
createBlockProxy(blockPath, local, h) ==
  [unitKeys |-> getBlockUnitKeys(HubGet(h, blockPath), local),
   cachedblock |-> EmptyMap]

\* the wire cache is not consulted: every call builds another wire
getWireAnew(localPath, c) ==
  LET wire == [wpath |-> localPath,
               gen |-> IF Has(c.wire, localPath) THEN c.wire[localPath].gen + 1 ELSE 1]
  IN [cache |-> [c EXCEPT !.wire = Put(@, localPath, wire)], wire |-> wire]

\* getWire: the cache after the call and the wire it returns
getWire(localPath, c) ==
  IF Has(c.wire, localPath)
  THEN [cache |-> c, wire |-> c.wire[localPath]]
  ELSE [cache |-> [c EXCEPT !.wire = Put(@, localPath, Wire(localPath))],
        wire |-> Wire(localPath)]

Outcome(c, hp, px, err) == [cache |-> c, heap |-> hp, px |-> px, err |-> err]

\* createBlockProxy(blockPath, local) followed by cache[which].set(key, proxy)
StoreNew(c, hp, h, blockPath, local, which, key) ==
  IF ~HubHas(h, blockPath) THEN Outcome(c, hp, NoPx, TypeError)
  ELSE LET id == NewPx(hp, blockPath, local)
           hp2 == Put(hp, id, createBlockProxy(blockPath, local, h))
           c2 == IF which = "localProxy"
                 THEN [c EXCEPT !.localProxy = Put(@, key, id)]
                 ELSE [c EXCEPT !.proxy = Put(@, key, id)]
       IN Outcome(c2, hp2, id, NoErr)

\* the throw names the root instead of the block the wire is bound to
externalBlockFromRoot(localPath, key, c, hp, h) ==
  IF HubHas(h, key) THEN StoreNew(c, hp, h, key, FALSE, "proxy", key)
  ELSE Outcome(c, hp, NoPx, NotFound(key, RootPath))

\* the end of the wire function: an absolute path of the hub, or the throw
externalBlock(localPath, key, c, hp, h) ==
  IF HubHas(h, key) THEN StoreNew(c, hp, h, key, FALSE, "proxy", key)
  ELSE Outcome(c, hp, NoPx, NotFound(key, localPath))

\* the body of the wire function bound to localPath
getBlockProxy(localPath, key, c, hp, h) ==
  IF Has(c.proxy, key) THEN Outcome(c, hp, c.proxy[key], NoErr)
  ELSE IF key = LocalKey THEN
    IF Has(c.localProxy, localPath)
    THEN Outcome(c, hp, c.localProxy[localPath], NoErr)
    ELSE StoreNew(c, hp, h, localPath, TRUE, "localProxy", localPath)
  ELSE IF key = ParentKey THEN
    LET parentPath == extractParentPath(localPath)
    IN IF Has(c.localProxy, parentPath)
       THEN Outcome(c, hp, c.localProxy[parentPath], NoErr)
       ELSE IF parentPath = Null THEN Outcome(c, hp, NoPx, NoParent)
       ELSE StoreNew(c, hp, h, parentPath, FALSE, "localProxy", parentPath)
  ELSE IF startsWithDot(key) THEN
    StoreNew(c, hp, h, Concat(localPath, key), FALSE, "proxy", Concat(localPath, key))
  ELSE IF key = RootPath THEN
    StoreNew(c, hp, h, RootPath, FALSE, "proxy", key)
  ELSE externalBlock(localPath, key, c, hp, h)

\* a wrapper is tested for the bound marker before the factory marker
DispatchBoundFirst(def) ==
  IF isFactoryFunc(def) THEN "call"
  ELSE IF isBoundFunc(def) THEN "bind"
  ELSE IF isUnitDef(def)
       THEN IF isBoundDef(def) THEN "bind"
            ELSE IF isFactoryDef(def) THEN "call"
            ELSE "unwrap"
       ELSE "self"

\* which branch of the conditional chain in the get trap resolves def
Dispatch(def) ==
  IF isFactoryFunc(def) THEN "call"
  ELSE IF isBoundFunc(def) THEN "bind"
  ELSE IF isUnitDef(def)
       THEN IF isFactoryDef(def) THEN "call"
            ELSE IF isBoundDef(def) THEN "bind"
            ELSE "unwrap"
       ELSE "self"

\* what the chosen branch does with the declared value: it calls it with the
\* wire, binds it to the wire, or stores it as it is
ResolutionStep(def) ==
  IF Dispatch(def) \in {"self", "unwrap"} THEN "asis" ELSE Dispatch(def)

\* the wire the get trap of a proxy of blockPath hands to the unit
UnitWire(blockPath, c) == getWire(blockPath, c)

\* the unit the get trap stores when it calls no function
Resolved(def, wire, n) ==
  IF Dispatch(def) = "bind" THEN Value("bound", def.id, wire, n)
  ELSE Value("decl", def.id, NoWire, 0)

\* what the function of def returns when its n-th call, made with wire, ends
Returned(def, wire, n) ==
  Value(IF def.afn THEN "promise" ELSE "ret", def.id, wire, n)

\* `prop in cachedblock` and cachedblock[prop] on the proxy's target
InTarget(px, prop) == Has(px.cachedblock, prop) \/ prop \in ObjectProtoKeys

TargetGet(px, prop) ==
  IF Has(px.cachedblock, prop) THEN px.cachedblock[prop]
  ELSE Value("inherited", prop, NoWire, 0)

\* the ownKeys trap of proxy x: the keys it returns and what it leaves behind
ownKeys(x, c, hp, cs) ==
  [keys |-> hp[x].unitKeys, cache |-> c, heap |-> hp, calls |-> cs]

\* the error the get trap throws for prop, NoErr when it throws none
GetError(id, px, prop) ==
  IF InTarget(px, prop) \/ InSeq(prop, px.unitKeys) THEN NoErr
  ELSE NoUnitNamed(id.path, prop)

-----------------------------------------------------------------------------
(* Bootstrap *)

\* "$" in defs ? defs : Object.assign(defs, { $: tagBlock() })
finalDefinitions(defs) ==
  IF HasKey(defs, "$") THEN defs
  ELSE [defs EXCEPT !.entries = Append(@, E("$", tagBlock))]

blockDefinitions(defs) == Assign(mapBlocks(defs, Null), RootPath, defs)

isAsyncItem(item) == isAsyncFactoryFunc(item) \/ isAsyncFactoryDef(item)

\* only functions with inline markers are looked at
hasAsyncFuncKeys(blockDefs) ==
  \E i \in 1..Len(blockDefs) :
    \E j \in 1..Len(blockDefs[i].def.entries) :
      isAsyncFactoryFunc(blockDefs[i].def.entries[j].item)

hasAsyncKeys(blockDefs) ==
  \E i \in 1..Len(blockDefs) :
    \E j \in 1..Len(blockDefs[i].def.entries) :
      isAsyncItem(blockDefs[i].def.entries[j].item)

\* the second branch of the loop body is missing: wrappers are passed over
RECURSIVE AsyncOrderOfFuncs(_)
AsyncOrderOfFuncs(defs) ==
  IF defs = <<>> THEN <<>>
  ELSE LET blockKey == Head(defs).path
           block == Head(defs).def
           F[j \in 0..Len(block.entries)] ==
             IF j = 0 THEN <<>>
             ELSE IF isFunction(block.entries[j].item) /\ isAsyncFactoryFunc(block.entries[j].item)
                  THEN Append(F[j-1], [blockKey |-> blockKey, key |-> block.entries[j].key])
                  ELSE F[j-1]
       IN F[Len(block.entries)] \o AsyncOrderOfFuncs(Tail(defs))

\* the units resolveAsyncFactories invokes, in the order of its two loops
RECURSIVE AsyncOrder(_)
AsyncOrder(defs) ==
  IF defs = <<>> THEN <<>>
  ELSE LET blockKey == Head(defs).path
           block == Head(defs).def
           F[j \in 0..Len(block.entries)] ==
             IF j = 0 THEN <<>>
             ELSE IF (isFunction(block.entries[j].item) /\ isAsyncFactoryFunc(block.entries[j].item))
                     \/ isAsyncFactoryDef(block.entries[j].item)
                  THEN Append(F[j-1], [blockKey |-> blockKey, key |-> block.entries[j].key])
                  ELSE F[j-1]
       IN F[Len(block.entries)] \o AsyncOrder(Tail(defs))

-----------------------------------------------------------------------------
(* The session: state and steps *)

Frame(mode, px, prop, fkey, def, wire, n) ==
  [mode |-> mode, px |-> px, prop |-> prop, fkey |-> fkey, def |-> def,
   wire |-> wire, n |-> n]

NoAwait == [fkey |-> Null, val |-> NoValue]

\* the exception the n-th call of the function of unit fkey threw into the
\* read that called it; to: the
\* unit whose function made the read and so receives it, Null for code that
\* is no unit's function
Thrown(fkey, n, to) == [fkey |-> fkey, n |-> n, to |-> to]
NoThrown == Thrown(Null, 0, Null)

\* the error object a call threw, or a promise rejected with
ErrorOf(f) == Value("error", f.def.id, f.wire, f.n)

Count(cs, fkey) == IF Has(cs, fkey) THEN cs[fkey] ELSE 0

Top == stack[Len(stack)]

\* the block that owns the unit stored under a fully-qualified key
Owner(fkey) == IF Len(fkey) = 1 THEN RootPath ELSE Front(fkey)

\* the blocks whose wire some unit function has received
Handed == {Owner(fkey) : fkey \in DOMAIN calls}

\* the block whose unit code is running, or may run, and so may call its wire
MayCall(localPath) ==
  IF stack # <<>> THEN localPath = Top.wire.wpath
  ELSE localPath \in Handed \/ (phase = "ready" /\ localPath = RootPath)

MayRead == stack # <<>> \/ phase = "ready" \/ Handed # {}

\* the wires that exist
Wires == DOMAIN cache.wire

\* the paths of the hub
Paths(h) == {h[i].path : i \in 1..Len(h)}

\* the keys handed to a wire: the shorthands, the absolute paths of the hub,
\* the last segment of every nested path as a child key, and two keys that
\* name no block of the hub
WireKeys(h) ==
  {RootPath, LocalKey, ParentKey, <<"nonexistent">>, <<"c">>}
    \cup Paths(h)
    \cup {<<"", p[Len(p)]>> : p \in {q \in Paths(h) : Len(q) > 1}}

\* the property names read from a proxy of blockPath: every key of the block
\* definition, a name it does not have, and a name Object.prototype has
PropsOf(blockPath) ==
  {Keys(HubGet(hub, blockPath))[i] : i \in 1..Len(HubGet(hub, blockPath).entries)}
    \cup {"missing", "toString"}

\* a call of defineUnit: the value and the options given, whether it threw,
\* the error thrown and the wrapper returned
Defined(def, b, f, a, p, threw, error, unit) ==
  [def |-> def, isBound |-> b, isFactory |-> f, isAsync |-> a, isPrivate |-> p,
   threw |-> threw, error |-> error, unit |-> unit]

\* a call of plug: the arguments, whether it threw, the plugin returned
Plugged(circuit, adapter, threw, plugin) ==
  [circuit |-> circuit, adapter |-> adapter, threw |-> threw, plugin |-> plugin]

NoPlugged == Plugged(tagBlock, tagBlock, FALSE, tagBlock)

\* a call of defineCircuit: the block given and the circuit returned
Made(mainBlock, circuit) == [mainBlock |-> mainBlock, circuit |-> circuit]

NoMade == Made(tagBlock, [__hub |-> <<>>, __inputs |-> NoInputs, __pluginAdapters |-> <<>>])

\* the latest call of mapBlocks and the map it returned
Mapped(blocks, prefix, mapped) == [blocks |-> blocks, prefix |-> prefix, mapped |-> mapped]

\* { $uno: { a: 3, b: "asdf", $sub: { otro: 2 }, $otro: 5 } } and its
\* variations: with and without direct units, with "$sub" an object, a
\* number or a tagged block "sub", with and without the number "$otro"
FlattenUnits == {<<>>, <<E("a", Val("3")), E("b", Val("asdf"))>>}
FlattenSubs ==
  {<<>>,
   <<E("$sub", Map(<<E("otro", Val("2"))>>))>>,
   <<E("$sub", Val("2"))>>,
   <<E("sub", Map(<<E("$", tagBlock), E("otro", Val("2"))>>))>>}
FlattenOthers == {<<>>, <<E("$otro", Val("5"))>>}
FlattenBlocks ==
  {Map(<<E("$uno", Map(us \o subs \o otros))>>) :
     us \in FlattenUnits, subs \in FlattenSubs, otros \in FlattenOthers}
FlattenPrefixes == {"", "pre"}

\* a plugin written out as an object literal, with the adapter { x: "foo" }
PluginLiteral(circuit) ==
  Map(<<E("__isPlugin", Val("true")),
        E("__connector", Map(<<>>)),
        E("__adapter", Map(<<E("x", Val("foo"))>>)),
        E("__circuit", circuit)>>)

\* an inner circuit without plugins, and one that holds the plugin "other"
InnerPlain == CircuitObject(defineCircuit(PluggedBlock, NoInputs))
InnerWithPlugin ==
  CircuitObject(defineCircuit(Map(<<E("other", PluginLiteral(InnerPlain))>>), NoInputs))

PluginLiterals == {PluginLiteral(InnerPlain), PluginLiteral(InnerWithPlugin)}

\* the blocks handed to defineCircuit: the plugin at the top, in a tagged
\* block, in a "$name" block, and two tagged blocks deep
CircuitBlocks(plugin) ==
  {Map(<<E("a", Val("a")), E("thePlugin", plugin)>>),
   Map(<<E("good", Map(<<E("$", tagBlock), E("a", Val("a")), E("circ", plugin)>>))>>),
   Map(<<E("$good", Map(<<E("a", Val("a")), E("circ", plugin)>>))>>),
   Map(<<E("a", Map(<<E("$", tagBlock),
                      E("b", Map(<<E("$", tagBlock), E("circ", plugin)>>))>>))>>)}

\* what a lookup in the caller's map of fake blocks yields
FakeBlock(id) == [kind |-> "block", id |-> id]
Undefined == [kind |-> "undefined", id |-> ""]
Inherited(name) == [kind |-> "inherited", id |-> name]

\* the shorthands are not looked up
fakeLookupOfAbsolute(fakeBlocks, blockPath) ==
  IF startsWithDot(blockPath) THEN Undefined
  ELSE IF Has(fakeBlocks, blockPath) THEN fakeBlocks[blockPath]
  ELSE IF Len(blockPath) = 1 /\ blockPath[1] \in ObjectProtoKeys
       THEN Inherited(blockPath[1])
       ELSE Undefined

\* fakeBlocks[blockPath] on an object literal
fakeLookup(fakeBlocks, blockPath) ==
  IF Has(fakeBlocks, blockPath) THEN fakeBlocks[blockPath]
  ELSE IF Len(blockPath) = 1 /\ blockPath[1] \in ObjectProtoKeys
       THEN Inherited(blockPath[1])
       ELSE Undefined

\* the function fakeWire returns, which closes over fakeBlocks only
fakeWire(fakeBlocks) == [wpath |-> Null, gen |-> 0, fake |-> fakeBlocks]

\* a call of it; arg is Null when it is called without argument
fakeWireCall(wire, arg) ==
  fakeLookup(wire.fake, IF arg = Null THEN RootPath ELSE arg)

\* which return statement of mockUnit is reached
MockStep(def) ==
  IF isUnitDef(def)
  THEN IF isFactoryDef(def) THEN "call"
       ELSE IF isBoundDef(def) THEN "bind"
       ELSE "asis"
  ELSE IF isBoundFunc(def) THEN "bind"
  ELSE IF isFactoryFunc(def) THEN "call"
  ELSE "asis"

\* mockUnit(def, fakeBlocks): the value it returns
mockUnit(def, fakeBlocks) ==
  LET wire == fakeWire(fakeBlocks)
  IN IF MockStep(def) = "call" THEN Returned(def, wire, 1)
     ELSE IF MockStep(def) = "bind" THEN Value("bound", def.id, wire, 1)
     ELSE Value("decl", def.id, NoWire, 0)

\* a call of mockUnit and the latest call of the wire it handed out
Mocked(def, fakeBlocks, step, unit, called, arg, got) ==
  [def |-> def, fakeBlocks |-> fakeBlocks, step |-> step, unit |-> unit,
   called |-> called, arg |-> arg, got |-> got]

NoMocked == Mocked(tagBlock, EmptyMap, "", NoValue, FALSE, Null, Undefined)

\* the definitions handed to mockUnit: a value, its wrapper, and a function
\* and an async function under every combination of the markers, inline
\* and wrapped
MockDefs ==
  {Val("five"), defineUnit("five", FALSE, FALSE, FALSE, FALSE, FALSE, FALSE)}
    \cup {Fn("fun", afn, b, f, a, FALSE) :
            afn \in BOOLEAN, b \in BOOLEAN, f \in BOOLEAN, a \in BOOLEAN}
    \cup {defineUnit("fun", TRUE, afn, b, f, a, FALSE) :
            afn \in BOOLEAN, b \in BOOLEAN, f \in BOOLEAN, a \in BOOLEAN}

\* the maps of fake blocks handed to mockUnit
FakeMaps ==
  {[p \in {RootPath, <<"user", "service">>} |->
      IF p = RootPath THEN FakeBlock("root") ELSE FakeBlock("user.service")],
   [p \in {LocalKey, <<"", "child">>} |->
      IF p = LocalKey THEN FakeBlock(".") ELSE FakeBlock(".child")]}

\* the arguments the fake wire is called with: none, "", ".", "..",
\* ".child", an absolute path, and two names no map has as a key
FakeArgs ==
  {Null, RootPath, LocalKey, ParentKey, <<"", "child">>, <<"user", "service">>,
   <<"absent">>, <<"toString">>}

NoDefined == Defined(tagBlock, FALSE, FALSE, FALSE, FALSE, FALSE, NoErr, tagBlock)

\* new Error("Wrong unit definition value")
WrongUnitDefinition == Err("Wrong unit definition value", Null, Null)

\* the values handed to defineUnit: a number, a function, an async function
UnitValues ==
  {Val("five"),
   Fn("fun", FALSE, FALSE, FALSE, FALSE, FALSE),
   Fn("afun", TRUE, FALSE, FALSE, FALSE, FALSE)}

Init ==
  /\ tree \in Trees
  /\ phase = "init"
  /\ returned = "none"
  /\ hub = <<>>
  /\ cache = NoCache
  /\ heap = EmptyMap
  /\ stack = <<>>
  /\ calls = EmptyMap
  /\ cursor = 0
  /\ awaiting = NoAwait
  /\ defined = NoDefined
  /\ plugged = NoPlugged
  /\ mocked = NoMocked
  /\ parked = NoSession
  /\ thrown = NoThrown
  /\ made = NoMade

\* the loops end at once: no asyncFactory is invoked or awaited
resolveNoAsyncFactories(c, defs, cur) ==
  /\ cache' = c
  /\ stack' = <<>>
  /\ cursor' = Len(AsyncOrder(defs)) + 1
  /\ UNCHANGED calls

\* resolveAsyncFactories from position cur of its loops up to its next await
resolveAsyncFactories(c, defs, cur) ==
  LET order == AsyncOrder(defs)
  IN IF cur > Len(order)
     THEN /\ cache' = c
          /\ stack' = <<>>
          /\ cursor' = cur
          /\ UNCHANGED calls
     ELSE LET blockKey == order[cur].blockKey
              key == order[cur].key
              item == Get(HubGet(defs, blockKey), key)
              g == getWire(blockKey, c)
              finalKey == FinalKey(blockKey, key)
              n == Count(calls, finalKey) + 1
          IN /\ n <= MaxCalls
             /\ cache' = g.cache
             /\ stack' = <<Frame("prepass", NoPx, key, finalKey, item, g.wire, n)>>
             /\ calls' = Put(calls, finalKey, n)
             /\ cursor' = cur

wireUp ==
  /\ phase = "init"
  /\ LET defs == finalDefinitions(tree)
         blockDefs == blockDefinitions(defs)
     IN /\ tree' = defs
        /\ hub' = blockDefs
        /\ IF hasAsyncKeys(blockDefs)
           THEN /\ phase' = "prepass"
                /\ returned' = "promise"
                /\ resolveAsyncFactories(createCacheObject, blockDefs, 1)
           ELSE /\ phase' = "ready"
                /\ returned' = "wire"
                /\ cache' = getWire(RootPath, createCacheObject).cache
                /\ UNCHANGED <<stack, calls, cursor>>
  /\ UNCHANGED <<outside, thrown, heap, awaiting>>

\* defineUnit(def, options), called while the tree is being written
DefineUnitCall(def, b, f, a, p) ==
  /\ phase = "init"
  /\ defined' =
       IF defineUnitThrows(def.fn, b, f, a)
       THEN Defined(def, b, f, a, p, TRUE, WrongUnitDefinition, tagBlock)
       ELSE Defined(def, b, f, a, p, FALSE, NoErr,
                    defineUnit(def.id, def.fn, def.afn, b, f, a, p))
  /\ UNCHANGED <<tree, phase, returned, hub, cache, heap, stack, calls, cursor,
                 awaiting, plugged, mocked, parked, thrown, made>>

\* plug(circuit, adapter), called while the tree is being written
PlugCall(circuit, adapter) ==
  /\ phase = "init"
  /\ plugged' =
       IF plugThrows(circuit, adapter)
       THEN Plugged(circuit, adapter, TRUE, tagBlock)
       ELSE Plugged(circuit, adapter, FALSE, plug(circuit, adapter))
  /\ UNCHANGED <<tree, phase, returned, hub, cache, heap, stack, calls, cursor,
                 awaiting, defined, mocked, parked, thrown, made>>

\* defineCircuit(mainBlock, {}), called while the tree is being written
DefineCircuitCall(mainBlock) ==
  /\ phase = "init"
  /\ made' = Made(mainBlock, defineCircuit(mainBlock, NoInputs))
  /\ UNCHANGED <<tree, phase, returned, hub, cache, heap, stack, calls, cursor,
                 awaiting, defined, plugged, mocked, parked, thrown>>

\* mapBlocks(blocks, prefix), called from outside
MapBlocksCall(blocks, prefix) ==
  /\ phase = "init"
  /\ made' = Mapped(blocks, prefix, mapInlineBlocks(blocks, prefix))
  /\ UNCHANGED <<tree, phase, returned, hub, cache, heap, stack, calls, cursor,
                 awaiting, defined, plugged, mocked, parked, thrown>>

\* mockUnit(def, fakeBlocks), in a test
MockUnitCall(def, fakeBlocks) ==
  /\ phase = "init"
  /\ mocked' = Mocked(def, fakeBlocks, MockStep(def), mockUnit(def, fakeBlocks),
                      FALSE, Null, Undefined)
  /\ UNCHANGED <<tree, phase, returned, hub, cache, heap, stack, calls, cursor,
                 awaiting, defined, plugged, parked, thrown, made>>

\* the unit calls the wire mockUnit bound it to or called it with
FakeWireCall(arg) ==
  /\ mocked.step \in {"call", "bind"}
  /\ mocked' = [mocked EXCEPT !.called = TRUE,
                              !.arg = arg,
                              !.got = fakeWireCall(mocked.unit.wire, arg)]
  /\ UNCHANGED <<tree, phase, returned, hub, cache, heap, stack, calls, cursor,
                 awaiting, defined, plugged, parked, thrown, made>>

\* wireUp of the circuit defineCircuit makes of the tree, without inputs
wireUpCircuit ==
  /\ phase = "init"
  /\ LET defs == defineCircuit(tree, NoInputs)
     IN /\ hub' = defs.__hub
        /\ IF hasAsyncKeys(defs.__hub)
           THEN /\ phase' = "prepass"
                /\ returned' = "promise"
                /\ resolveAsyncFactories(createCacheObject, defs.__hub, 1)
           ELSE /\ phase' = "ready"
                /\ returned' = "wire"
                /\ cache' = getWire(RootPath, createCacheObject).cache
                /\ UNCHANGED <<stack, calls, cursor>>
  /\ UNCHANGED <<outside, thrown, tree, heap, awaiting>>

\* the awaited promise resolves: the value is stored and the loops go on
AsyncSettle ==
  /\ phase = "prepass"
  /\ stack = <<>>
  /\ awaiting # NoAwait
  /\ resolveAsyncFactories(
       [cache EXCEPT !.unit = Put(@, awaiting.fkey, Awaited(awaiting.val))],
       hub, cursor + 1)
  /\ awaiting' = NoAwait
  /\ UNCHANGED <<outside, thrown, tree, phase, returned, hub, heap>>

\* the .then callback of wireUp: the root wire reaches the caller
Deliver ==
  /\ phase = "prepass"
  /\ stack = <<>>
  /\ awaiting = NoAwait
  /\ cursor > Len(AsyncOrder(hub))
  /\ phase' = "ready"
  /\ cache' = getWire(RootPath, cache).cache
  /\ UNCHANGED <<outside, thrown, tree, returned, hub, heap, stack, calls, cursor, awaiting>>

\* a call of the wire bound to localPath; when it throws, nothing changes
WireCall(localPath, key) ==
  /\ phase # "init"
  /\ MayCall(localPath)
  /\ LET o == getBlockProxy(localPath, key, cache, heap, hub)
     IN /\ Cardinality(DOMAIN o.heap) <= MaxProxies
        /\ cache' = o.cache
        /\ heap' = o.heap
  /\ UNCHANGED <<outside, thrown, tree, phase, returned, hub, stack, calls, cursor, awaiting>>

\* the get trap of proxy x up to the value it returns or the factory it calls
ProxyGet(x, prop) ==
  /\ phase # "init"
  /\ MayRead
  /\ x \in DOMAIN heap
  /\ LET px == heap[x]
         finalKey == FinalKey(x.path, prop)
         def == Get(HubGet(hub, x.path), prop)
         g == UnitWire(x.path, cache)
         n == Count(calls, finalKey) + 1
     IN IF InTarget(px, prop) THEN
          UNCHANGED <<cache, heap, stack, calls>>
        ELSE IF InSeq(prop, px.unitKeys) THEN
          IF Has(cache.unit, finalKey) THEN
            /\ heap' = [heap EXCEPT ![x].cachedblock = Put(@, prop, cache.unit[finalKey])]
            /\ UNCHANGED <<cache, stack, calls>>
          ELSE IF Dispatch(def) = "call" THEN
            /\ Len(stack) < MaxDepth
            /\ n <= MaxCalls
            /\ cache' = g.cache
            /\ stack' = Append(stack, Frame("get", x, prop, finalKey, def, g.wire, n))
            /\ calls' = Put(calls, finalKey, n)
            /\ UNCHANGED heap
          ELSE
            /\ heap' = [heap EXCEPT ![x].cachedblock = Put(@, prop, Resolved(def, g.wire, n))]
            /\ cache' = [g.cache EXCEPT !.unit = Put(@, finalKey, Resolved(def, g.wire, n))]
            /\ calls' = IF Dispatch(def) = "bind" THEN Put(calls, finalKey, n) ELSE calls
            /\ UNCHANGED stack
        ELSE
          \* throws GetError(x, px, prop)
          UNCHANGED <<cache, heap, stack, calls>>
  /\ UNCHANGED <<outside, thrown, tree, phase, returned, hub, cursor, awaiting>>

\* Object.keys(proxy): the ownKeys trap of proxy x
OwnKeys(x) ==
  /\ phase # "init"
  /\ MayRead
  /\ x \in DOMAIN heap
  /\ LET o == ownKeys(x, cache, heap, calls)
     IN /\ cache' = o.cache
        /\ heap' = o.heap
        /\ calls' = o.calls
  /\ UNCHANGED <<outside, thrown, tree, phase, returned, hub, stack, cursor, awaiting>>

\* the function called by the top frame returns
Return ==
  /\ stack # <<>>
  /\ LET f == Top
         unit == Returned(f.def, f.wire, f.n)
     IN IF f.mode = "get"
        THEN /\ heap' = [heap EXCEPT ![f.px].cachedblock = Put(@, f.prop, unit)]
             /\ cache' = [cache EXCEPT !.unit = Put(@, f.fkey, unit)]
             /\ UNCHANGED awaiting
        ELSE /\ awaiting' = [fkey |-> f.fkey, val |-> unit]
             /\ UNCHANGED <<heap, cache>>
  /\ stack' = Front(stack)
  /\ UNCHANGED <<outside, thrown, tree, phase, returned, hub, calls, cursor>>

Next ==
  \/ wireUp
  \/ wireUpCircuit
  \/ AsyncSettle
  \/ Deliver
  \/ \E localPath \in Wires, key \in WireKeys(hub) : WireCall(localPath, key)
  \/ \E x \in DOMAIN heap : \E prop \in PropsOf(x.path) : ProxyGet(x, prop)
  \/ \E x \in DOMAIN heap : OwnKeys(x)
  \/ Return

Spec == Init /\ [][Next]_vars

\* The programs in which no unit is read while its own function is running
\* or is suspended in the pre-pass: no unit depends on itself.
InProgress(fkey) ==
  \/ \E i \in 1..Len(stack) : stack[i].fkey = fkey
  \/ awaiting.fkey = fkey

AcyclicGet(x, prop) == ProxyGet(x, prop) /\ ~InProgress(FinalKey(x.path, prop))

NextAcyclic ==
  \/ wireUp
  \/ wireUpCircuit
  \/ AsyncSettle
  \/ Deliver
  \/ \E localPath \in Wires, key \in WireKeys(hub) : WireCall(localPath, key)
  \/ \E x \in DOMAIN heap : \E prop \in PropsOf(x.path) : AcyclicGet(x, prop)
  \/ \E x \in DOMAIN heap : OwnKeys(x)
  \/ Return

SpecAcyclic == Init /\ [][NextAcyclic]_vars

\* A test file: calls of mockUnit and of the wires it hands out.
NextMock ==
  \/ \E def \in MockDefs, fakeBlocks \in FakeMaps : MockUnitCall(def, fakeBlocks)
  \/ \E arg \in FakeArgs : FakeWireCall(arg)

SpecMock == Init /\ [][NextMock]_vars

\* The same programs when a called function returns and the callback of a
\* resolved promise runs; whether an awaited promise settles is left open.
SpecLive == Init /\ [][NextAcyclic]_vars /\ WF_vars(Return) /\ WF_vars(Deliver)

\* a tree whose functions may throw: a factory and an asyncFactory that is no
\* async function at the root, an asyncFactory that is one below
TreeThrow ==
  Map(<<E("$", tagBlock),
        E("f", Fn("f", FALSE, FALSE, TRUE, FALSE, FALSE)),
        E("s", defineUnit("s", TRUE, FALSE, FALSE, TRUE, TRUE, FALSE)),
        E("a", Map(<<E("$", tagBlock),
                     E("g", Fn("g", TRUE, FALSE, TRUE, TRUE, FALSE))>>))>>)

\* the rejection is swallowed and the loops go on with the next unit
awaitThrowsCaught(c, defs, cur, err) ==
  /\ phase' = phase
  /\ awaiting' = NoAwait
  /\ resolveAsyncFactories(c, defs, cur + 1)

\* `await item(wire)` throws err inside resolveAsyncFactories: its promise,
\* and with it the one wireUp returned through .then, rejects with err
awaitThrows(c, defs, cur, err) ==
  /\ phase' = "rejected"
  /\ awaiting' = [fkey |-> FinalKey(AsyncOrder(defs)[cur].blockKey, AsyncOrder(defs)[cur].key),
                  val |-> err]
  /\ cache' = c
  /\ stack' = <<>>
  /\ cursor' = cur
  /\ UNCHANGED calls

\* the get trap catches what the function throws and stores it as the unit
ThrowCached ==
  /\ stack # <<>>
  /\ ~Top.def.afn
  /\ LET f == Top
     IN IF f.mode = "get"
        THEN /\ thrown' = Thrown(f.fkey, f.n,
                                 IF Len(stack) > 1 THEN stack[Len(stack) - 1].fkey ELSE Null)
             /\ stack' = Front(stack)
             /\ heap' = [heap EXCEPT ![f.px].cachedblock = Put(@, f.prop, ErrorOf(f))]
             /\ cache' = [cache EXCEPT !.unit = Put(@, f.fkey, ErrorOf(f))]
             /\ UNCHANGED <<phase, calls, cursor, awaiting>>
        ELSE /\ awaitThrows(cache, hub, cursor, ErrorOf(f))
             /\ UNCHANGED <<thrown, heap>>
  /\ UNCHANGED <<outside, tree, returned, hub>>

\* the function called by the top frame throws; one that is an async
\* function returns a promise instead
Throw ==
  /\ stack # <<>>
  /\ ~Top.def.afn
  /\ LET f == Top
     IN IF f.mode = "get"
        THEN /\ thrown' = Thrown(f.fkey, f.n,
                                 IF Len(stack) > 1 THEN stack[Len(stack) - 1].fkey ELSE Null)
             /\ stack' = Front(stack)
             /\ UNCHANGED <<phase, cache, heap, calls, cursor, awaiting>>
        ELSE /\ awaitThrows(cache, hub, cursor, ErrorOf(f))
             /\ UNCHANGED <<thrown, heap>>
  /\ UNCHANGED <<outside, tree, returned, hub>>

\* the promise resolveAsyncFactories awaits rejects
AsyncReject ==
  /\ phase = "prepass"
  /\ stack = <<>>
  /\ awaiting # NoAwait
  /\ awaiting.val.vt = "promise"
  /\ awaitThrows(cache, hub, cursor, [awaiting.val EXCEPT !.vt = "error"])
  /\ UNCHANGED <<outside, thrown, tree, returned, hub, heap>>

InitThrow ==
  /\ tree = TreeThrow
  /\ phase = "init"
  /\ returned = "none"
  /\ hub = <<>>
  /\ cache = NoCache
  /\ heap = EmptyMap
  /\ stack = <<>>
  /\ calls = EmptyMap
  /\ cursor = 0
  /\ awaiting = NoAwait
  /\ defined = NoDefined
  /\ plugged = NoPlugged
  /\ mocked = NoMocked
  /\ parked = NoSession
  /\ thrown = NoThrown
  /\ made = NoMade

\* The programs in which a unit function may throw and a promise may reject.
NextThrow ==
  \/ wireUp
  \/ AsyncSettle
  \/ AsyncReject
  \/ Deliver
  \/ \E localPath \in Wires, key \in WireKeys(hub) : WireCall(localPath, key)
  \/ \E x \in DOMAIN heap : \E prop \in PropsOf(x.path) : AcyclicGet(x, prop)
  \/ Return
  \/ Throw

SpecThrow == InitThrow /\ [][NextThrow]_vars

\* a tree of factories that read one another: h reads the value v, f reads g
\* and g reads f, s reads itself
TreeCycle ==
  Map(<<E("$", tagBlock),
        E("v", Val("v")),
        E("h", Fn("h", FALSE, FALSE, TRUE, FALSE, FALSE)),
        E("f", Fn("f", FALSE, FALSE, TRUE, FALSE, FALSE)),
        E("g", defineUnit("g", TRUE, FALSE, FALSE, TRUE, FALSE, FALSE)),
        E("s", Fn("s", FALSE, FALSE, TRUE, FALSE, FALSE))>>)

\* the unit the body of a function of TreeCycle reads through its wire
\* before it returns
Reads(id) ==
  IF id = "h" THEN <<"v">>
  ELSE IF id = "f" THEN <<"g">>
  ELSE IF id = "g" THEN <<"f">>
  ELSE <<"s">>

\* the units whose functions run one after the other when prop is read
RECURSIVE ChainOf(_, _)
ChainOf(prop, k) ==
  IF k = 0 \/ prop = "v" THEN {}
  ELSE {prop} \cup ChainOf(Reads(prop)[1], k - 1)

\* a read made by the running function, which reads what its body names, or
\* by the code outside the units, which reads any unit; the calls that a
\* read from outside leads to are all within the counted ones
CycleGet(x, prop) ==
  /\ x.path = RootPath
  /\ stack # <<>> => <<prop>> = Reads(Top.def.id)
  /\ stack = <<>> /\ ~Has(cache.unit, <<prop>>) =>
       \A k \in ChainOf(prop, MaxDepth) : Count(calls, <<k>>) + MaxDepth <= MaxCalls
  /\ ProxyGet(x, prop)

\* each caller catches the error of the call it made and reads again
StackOverflowCaught ==
  /\ Len(stack) = MaxDepth
  /\ ~Has(cache.unit, Reads(Top.def.id))
  /\ Dispatch(Get(HubGet(hub, RootPath), Reads(Top.def.id)[1])) = "call"
  /\ stack' = Front(stack)
  /\ thrown' = Thrown(Top.fkey, Top.n, stack[Len(stack) - 1].fkey)
  /\ UNCHANGED <<outside, tree, phase, returned, hub, cache, heap, calls, cursor, awaiting>>

\* the call stack of the runtime holds MaxDepth calls of unit functions: the
\* call that would be one more throws a RangeError instead; the get trap and
\* the functions of TreeCycle have no handler, so every running call ends
\* with it, nothing is stored, and the error reaches the code outside
StackOverflow ==
  /\ Len(stack) = MaxDepth
  /\ ~Has(cache.unit, Reads(Top.def.id))
  /\ Dispatch(Get(HubGet(hub, RootPath), Reads(Top.def.id)[1])) = "call"
  /\ stack' = <<>>
  /\ thrown' = Thrown(Top.fkey, Top.n, Null)
  /\ UNCHANGED <<outside, tree, phase, returned, hub, cache, heap, calls, cursor, awaiting>>

\* the running function returns once the read its body makes has returned
CycleReturn ==
  /\ stack # <<>>
  /\ Has(cache.unit, Reads(Top.def.id))
  /\ Return

InitCycle ==
  /\ tree = TreeCycle
  /\ phase = "init"
  /\ returned = "none"
  /\ hub = <<>>
  /\ cache = NoCache
  /\ heap = EmptyMap
  /\ stack = <<>>
  /\ calls = EmptyMap
  /\ cursor = 0
  /\ awaiting = NoAwait
  /\ defined = NoDefined
  /\ plugged = NoPlugged
  /\ mocked = NoMocked
  /\ parked = NoSession
  /\ thrown = NoThrown
  /\ made = NoMade

\* The programs whose functions read as their bodies say; code that runs
\* goes on running.
NextCycle ==
  \/ wireUp
  \/ \E localPath \in Wires, key \in WireKeys(hub) : WireCall(localPath, key)
  \/ \E x \in DOMAIN heap : \E prop \in PropsOf(x.path) : CycleGet(x, prop)
  \/ CycleReturn
  \/ StackOverflow

SpecCycle == InitCycle /\ [][NextCycle]_vars /\ WF_vars(NextCycle)

\* an object that is no function and has the property isPrivate: true
ObjectVal(id, p) == Item("unit", "value", FALSE, FALSE, FALSE, FALSE, FALSE, p, id, <<>>)

\* public and private units of every encoding, at the root and in a block
TreePrivacy ==
  Map(<<E("$", tagBlock),
        E("pub1", Val("pub1")),
        E("pub2", ObjectVal("pub2", TRUE)),
        E("priv1", Fn("priv1", FALSE, FALSE, FALSE, FALSE, TRUE)),
        E("n", Map(<<E("$", tagBlock),
                     E("pubDef", defineUnit("pubDef", TRUE, FALSE, FALSE, FALSE, FALSE, FALSE)),
                     E("privDef", defineUnit("privDef", FALSE, FALSE, FALSE, FALSE, FALSE, TRUE)),
                     E("obj", ObjectVal("obj", TRUE))>>))>>)

InitKeys ==
  /\ tree = TreePrivacy
  /\ phase = "init"
  /\ returned = "none"
  /\ hub = <<>>
  /\ cache = NoCache
  /\ heap = EmptyMap
  /\ stack = <<>>
  /\ calls = EmptyMap
  /\ cursor = 0
  /\ awaiting = NoAwait
  /\ defined = NoDefined
  /\ plugged = NoPlugged
  /\ mocked = NoMocked
  /\ parked = NoSession
  /\ thrown = NoThrown
  /\ made = NoMade

\* A session whose proxies are made, listed and read.
NextKeys ==
  \/ wireUp
  \/ \E localPath \in Wires, key \in WireKeys(hub) : WireCall(localPath, key)
  \/ \E x \in DOMAIN heap : \E prop \in PropsOf(x.path) : ProxyGet(x, prop)
  \/ \E x \in DOMAIN heap : OwnKeys(x)

SpecKeys == InitKeys /\ [][NextKeys]_vars

\* Two sessions: what belongs to one call of wireUp, as one record
Session(t, ph, r, h, c, hp, st, cs, cur, aw) ==
  [tree |-> t, phase |-> ph, returned |-> r, hub |-> h, cache |-> c, heap |-> hp,
   stack |-> st, calls |-> cs, cursor |-> cur, awaiting |-> aw]

\* the session whose code runs
Running ==
  Session(tree, phase, returned, hub, cache, heap, stack, calls, cursor, awaiting)

\* a session before its call of wireUp
NewSession(t) ==
  Session(t, "init", "none", <<>>, NoCache, EmptyMap, <<>>, EmptyMap, 0, NoAwait)

InitTwo ==
  /\ parked \in {NewSession(t) : t \in TwoTrees}
  /\ tree \in TwoTrees
  /\ phase = "init"
  /\ returned = "none"
  /\ hub = <<>>
  /\ cache = NoCache
  /\ heap = EmptyMap
  /\ stack = <<>>
  /\ calls = EmptyMap
  /\ cursor = 0
  /\ awaiting = NoAwait
  /\ defined = NoDefined
  /\ plugged = NoPlugged
  /\ mocked = NoMocked
  /\ thrown = NoThrown
  /\ made = NoMade

\* the code of the other session gets to run
Switch ==
  /\ parked # NoSession
  /\ parked' = Running
  /\ tree' = parked.tree
  /\ phase' = parked.phase
  /\ returned' = parked.returned
  /\ hub' = parked.hub
  /\ cache' = parked.cache
  /\ heap' = parked.heap
  /\ stack' = parked.stack
  /\ calls' = parked.calls
  /\ cursor' = parked.cursor
  /\ awaiting' = parked.awaiting
  /\ UNCHANGED <<defined, plugged, mocked, thrown, made>>

NextTwo ==
  \/ wireUp
  \/ AsyncSettle
  \/ Deliver
  \/ \E localPath \in Wires, key \in WireKeys(hub) : WireCall(localPath, key)
  \/ \E x \in DOMAIN heap : \E prop \in PropsOf(x.path) : ProxyGet(x, prop)
  \/ Return
  \/ Switch

SpecTwo == InitTwo /\ [][NextTwo]_vars

\* Definition time: the calls of defineUnit and plug made before any wireUp.
NextDefine ==
  \/ \E def \in UnitValues : \E b \in BOOLEAN, f \in BOOLEAN, a \in BOOLEAN, p \in BOOLEAN :
       DefineUnitCall(def, b, f, a, p)
  \/ \E circuit \in Circuits, adapter \in Adapters : PlugCall(circuit, adapter)

SpecDefine == Init /\ [][NextDefine]_vars

\* Composition: the calls of plug and of defineCircuit on a block that holds
\* a plugin, one written out or the one plug returned last.
NextCircuit ==
  \/ \E circuit \in Circuits, adapter \in Adapters : PlugCall(circuit, adapter)
  \/ \E plugin \in PluginLiterals \cup (IF plugged # NoPlugged /\ ~plugged.threw
                                          THEN {plugged.plugin} ELSE {}) :
       \E mainBlock \in CircuitBlocks(plugin) : DefineCircuitCall(mainBlock)

SpecCircuit == Init /\ [][NextCircuit]_vars

\* Blocks are flattened, one call after the other.
NextFlatten ==
  \E blocks \in FlattenBlocks, prefix \in FlattenPrefixes : MapBlocksCall(blocks, prefix)

SpecFlatten == Init /\ [][NextFlatten]_vars

-----------------------------------------------------------------------------
(* What the claims speak of *)

\* the units of the blocks of a tree, at every depth, each with its owner
RECURSIVE TreeUnits(_, _)
TreeUnits(block, path) ==
  UNION {
    LET key == block.entries[i].key
        item == block.entries[i].item
    IN IF key = "$" THEN {}
       ELSE IF itemIsBlock(item)
            THEN TreeUnits(item, IF path = RootPath THEN <<key>> ELSE path \o <<key>>)
            ELSE {[owner |-> path, key |-> key, item |-> item]}
    : i \in 1..Len(block.entries)}

\* the kind a unit is declared with
KindOf(item) ==
  IF item.fn /\ item.isFactory /\ item.isAsync THEN "asyncFactory"
  ELSE IF item.fn /\ item.isFactory THEN "factory"
  ELSE IF item.fn /\ item.isBound THEN "bound"
  ELSE "plain"

\* the private units a block declares
PrivateUnits(blockPath) ==
  {u.key : u \in {v \in TreeUnits(tree, RootPath) :
                    v.owner = blockPath /\ v.item.isPrivate /\ v.item.enc # "value"}}

\* what the call of a wire that exists would return in the current state
CallNow(localPath, key) == getBlockProxy(localPath, key, cache, heap, hub)

\* the value a read of prop through proxy x would return in the current
\* state when it returns without calling a function, NoValue otherwise
ReadNow(x, prop) ==
  LET px == heap[x]
      finalKey == FinalKey(x.path, prop)
      def == Get(HubGet(hub, x.path), prop)
  IN IF InTarget(px, prop) THEN TargetGet(px, prop)
     ELSE IF ~InSeq(prop, px.unitKeys) THEN NoValue
     ELSE IF Has(cache.unit, finalKey) THEN cache.unit[finalKey]
     ELSE IF Dispatch(def) = "call" THEN NoValue
     ELSE Resolved(def, UnitWire(x.path, cache).wire, Count(calls, finalKey) + 1)

-----------------------------------------------------------------------------
(* C1..C10 *)

\* C1: a private unit u of block B is enumerated and readable only through
\* the proxy B's own wire(".") returns: every other wire call that returns a
\* proxy of B (root wire, absolute path, a child's "..", a parent's ".child")
\* returns one that does not list u and whose read of u throws "has no unit
\* named".
C1_PrivateOnlyThroughLocal ==
  \A localPath \in Wires : \A key \in WireKeys(hub) \ {LocalKey} :
    LET o == CallNow(localPath, key)
    IN o.err = NoErr =>
         \A u \in PrivateUnits(o.px.path) :
           /\ ~InSeq(u, o.heap[o.px].unitKeys)
           /\ GetError(o.px, o.heap[o.px], u) = NoUnitNamed(o.px.path, u)

\* C2: within one session every factory and asyncFactory function is invoked
\* at most once.
C2_FactoryInvokedAtMostOnce ==
  \A u \in TreeUnits(tree, RootPath) :
    KindOf(u.item) \in {"factory", "asyncFactory"} =>
      Count(calls, FinalKey(u.owner, u.key)) <= 1

\* C3: two reads of the same unit of the same block return the identical
\* value, through the same proxy or through two proxies of the block (every
\* value a read returned is the one the proxy keeps for the unit).
C3_SameValueOnEveryRead ==
  \A x \in DOMAIN heap : \A y \in DOMAIN heap :
    x.path = y.path =>
      \A prop \in DOMAIN heap[x].cachedblock \cap DOMAIN heap[y].cachedblock :
        heap[x].cachedblock[prop] = heap[y].cachedblock[prop]

\* C4: once the promise of wireUp has resolved, a read of an asyncFactory unit
\* through any proxy returns the awaited result of its function, never a
\* promise.
C4_AsyncUnitReadsAwaited ==
  phase = "ready" =>
    \A x \in DOMAIN heap : \A u \in TreeUnits(tree, RootPath) :
      (u.owner = x.path /\ KindOf(u.item) = "asyncFactory"
         /\ InSeq(u.key, heap[x].unitKeys))
        => /\ ReadNow(x, u.key).vt = "ret"
           /\ ReadNow(x, u.key).id = u.item.id

\* C5: when the tree has asyncFactory units, the root wire reaches the caller
\* of wireUp only after the awaited value of every one of them is in the unit
\* cache under its fully-qualified key.
C5_DeliveredAfterAllStored ==
  (phase = "ready" /\ returned = "promise") =>
    \A u \in TreeUnits(tree, RootPath) :
      KindOf(u.item) = "asyncFactory" =>
        /\ Has(cache.unit, FinalKey(u.owner, u.key))
        /\ cache.unit[FinalKey(u.owner, u.key)].vt = "ret"
        /\ cache.unit[FinalKey(u.owner, u.key)].id = u.item.id

C5_Witness ==
  /\ phase = "ready"
  /\ returned = "promise"
  /\ Cardinality({u \in TreeUnits(tree, RootPath) : KindOf(u.item) = "asyncFactory"}) = 2

\* C6: wireUp returns the root wire itself exactly when no block of the tree,
\* at any depth, has a unit marked asyncFactory in either encoding, and a
\* promise of it otherwise.
C6_SyncIffNoAsyncFactory ==
  returned # "none" =>
    (returned = "wire" <=>
       ~\E u \in TreeUnits(tree, RootPath) : KindOf(u.item) = "asyncFactory")

C6_Witness ==
  /\ returned = "promise"
  /\ \A u \in TreeUnits(tree, RootPath) :
       KindOf(u.item) = "asyncFactory" => (u.item.enc = "def" /\ Len(u.owner) = 2)

\* C7: wire(".") on the wire of block B always returns a proxy that exposes
\* the public and the private units of B, whatever calls came before.
C7_LocalProxyExposesAll ==
  \A localPath \in Wires :
    LET o == CallNow(localPath, LocalKey)
    IN /\ o.err = NoErr
       /\ o.px.path = localPath
       /\ o.heap[o.px].unitKeys = getBlockUnitKeys(HubGet(hub, localPath), TRUE)

\* the block definition without its entry u, and the hub of the tree that
\* differs in that entry only
Without(blockDef, u) ==
  [blockDef EXCEPT !.entries = SelectSeq(@, LAMBDA e : e.key # u)]

HubWithout(blockPath, u) == Assign(hub, blockPath, Without(HubGet(hub, blockPath), u))

\* C8: a tree and the same tree without the private unit u of block B cannot
\* be told apart through a proxy of B that a call other than B's own
\* wire(".") returns: it lists the keys, and its read of u throws the error,
\* of the proxy the same call returns in the tree without u.
C8_PrivateUnitIndistinguishable ==
  \A localPath \in Wires : \A key \in WireKeys(hub) \ {LocalKey} :
    LET o == CallNow(localPath, key)
    IN o.err = NoErr =>
         \A u \in PrivateUnits(o.px.path) :
           LET other == createBlockProxy(o.px.path, FALSE, HubWithout(o.px.path, u))
           IN /\ o.heap[o.px].unitKeys = other.unitKeys
              /\ GetError(o.px, o.heap[o.px], u) = GetError(o.px, other, u)
              /\ GetError(o.px, other, u) = NoUnitNamed(o.px.path, u)

\* the value the first read of a unit has to return
Expected(u, v) ==
  LET own == Wire(u.owner)
  IN IF KindOf(u.item) = "plain" THEN v = Value("decl", u.item.id, NoWire, 0)
     ELSE IF KindOf(u.item) = "bound"
          THEN v.vt = "bound" /\ v.id = u.item.id /\ v.wire = own
     ELSE IF KindOf(u.item) = "factory"
          THEN v.vt \in {"ret", "promise"} /\ v.id = u.item.id /\ v.wire = own
     ELSE TRUE

\* C9: a read of a unit yields the declared value for a plain unit, the
\* function bound to the wire of the owning block for a bound unit, and what
\* the function returned when called with the wire of the owning block for a
\* factory unit.
C9_ResolvedByKind ==
  \A x \in DOMAIN heap : \A u \in TreeUnits(tree, RootPath) :
    (u.owner = x.path /\ InSeq(u.key, heap[x].unitKeys)
       /\ ReadNow(x, u.key) # NoValue)
      => Expected(u, ReadNow(x, u.key))

\* neither a shorthand, nor a child key, nor a path of the hub
Unresolvable(key) ==
  /\ key \notin {LocalKey, ParentKey, RootPath}
  /\ ~startsWithDot(key)
  /\ key \notin Paths(hub)

\* C10: a wire bound to P, called with a key that is no shorthand, no child
\* key and no path of the hub, throws the error that names the key and P and
\* leaves the four caches (and every proxy) as they were.
C10_UnresolvedKeyThrows ==
  \A localPath \in Wires : \A key \in WireKeys(hub) :
    Unresolvable(key) =>
      /\ CallNow(localPath, key).err = NotFound(key, localPath)
      /\ CallNow(localPath, key).px = NoPx
      /\ CallNow(localPath, key).cache = cache
      /\ CallNow(localPath, key).heap = heap

C10_Witness ==
  /\ \E localPath \in Wires : localPath # RootPath
  /\ cache.proxy # EmptyMap
  /\ cache.localProxy # EmptyMap
  /\ cache.unit # EmptyMap
  /\ \E key \in WireKeys(hub) : Unresolvable(key)

-----------------------------------------------------------------------------
(* C11..C20 *)

\* C11: a read, through a block proxy, of a property name that is not among
\* the proxy's unit keys throws "Block '<path>' has no unit named '<name>'",
\* whatever the name.
C11_UnknownNameThrows ==
  \A x \in DOMAIN heap : \A prop \in PropsOf(x.path) :
    ~InSeq(prop, heap[x].unitKeys) =>
      GetError(x, heap[x], prop) = NoUnitNamed(x.path, prop)

\* every key of the map old still holds, in the map new, the value it held
Kept(old, new) == \A k \in DOMAIN old : k \in DOMAIN new /\ new[k] = old[k]

\* C12: once a key of one of the four session caches holds a value, no step
\* (wire call, proxy read, pre-pass step) stores a different value under it.
C12_CachesWrittenOnce ==
  [][/\ Kept(cache.unit, cache'.unit)
     /\ Kept(cache.wire, cache'.wire)
     /\ Kept(cache.proxy, cache'.proxy)
     /\ Kept(cache.localProxy, cache'.localProxy)]_vars

\* the keys ".c" that name, from the block at localPath, a block of the hub
ChildKeys(localPath) ==
  {key \in WireKeys(hub) :
     startsWithDot(key) /\ key \notin {LocalKey, ParentKey}
       /\ Concat(localPath, key) \in Paths(hub)}

\* C13: wire(".c") on the wire of P, for a block P.c of the hub, returns the
\* public proxy of P.c, and it is the very proxy an earlier call stored for
\* that path and the one the same call returns when it is repeated.
C13_ChildProxyMemoized ==
  \A localPath \in Wires : \A key \in ChildKeys(localPath) :
    LET blockPath == Concat(localPath, key)
        o == CallNow(localPath, key)
        again == getBlockProxy(localPath, key, o.cache, o.heap, hub)
    IN /\ o.err = NoErr
       /\ o.px.path = blockPath
       /\ ~o.px.local
       /\ Has(cache.proxy, blockPath) => o.px = cache.proxy[blockPath]
       /\ again.px = o.px

\* C14: wire("..") on the wire of a hub block whose path has a dot succeeds
\* and returns the public proxy of the block one level up.
C14_ParentProxyPublic ==
  \A localPath \in Wires :
    Len(localPath) > 1 =>
      LET o == CallNow(localPath, ParentKey)
      IN /\ o.err = NoErr
         /\ o.px.path = Front(localPath)
         /\ ~o.px.local

\* C15: wire("..") on the wire of a block whose path has no dot (the root, a
\* top-level block) throws the error of a missing parent and stores nothing.
C15_NoParentThrows ==
  \A localPath \in Wires :
    Len(localPath) = 1 =>
      LET o == CallNow(localPath, ParentKey)
      IN /\ o.err = NoParent
         /\ o.px = NoPx
         /\ o.cache = cache
         /\ o.heap = heap

C15_Witness ==
  /\ \E localPath \in Wires : Len(localPath) = 1 /\ localPath # RootPath
  /\ RootPath \in Wires
  /\ cache.proxy # EmptyMap
  /\ cache.localProxy # EmptyMap

\* the unit value was made with a wire: bound to it, or returned by a call
\* that received it
MadeWithWire(v) == v.vt \in {"bound", "ret", "promise"}

\* C16: there is one wire per block path: getWire returns, for a path that
\* has a wire, that wire and builds none, and the wire every bound function
\* is bound to and every factory and asyncFactory was called with is the
\* wire of the block that owns the unit.
C16_OneWirePerBlock ==
  /\ \A p \in Wires :
       /\ getWire(p, cache).wire = cache.wire[p]
       /\ getWire(p, cache).cache = cache
       /\ cache.wire[p].wpath = p
  /\ \A k \in DOMAIN cache.unit :
       MadeWithWire(cache.unit[k]) =>
         Owner(k) \in Wires /\ cache.unit[k].wire = cache.wire[Owner(k)]
  /\ \A x \in DOMAIN heap : \A prop \in DOMAIN heap[x].cachedblock :
       MadeWithWire(heap[x].cachedblock[prop]) =>
         heap[x].cachedblock[prop].wire = cache.wire[x.path]
  /\ \A i \in 1..Len(stack) :
       stack[i].wire = cache.wire[Owner(stack[i].fkey)]
  /\ awaiting # NoAwait =>
       awaiting.val.wire = cache.wire[Owner(awaiting.fkey)]

C16_Witness ==
  /\ \E k \in DOMAIN cache.unit : cache.unit[k].vt = "bound"
  /\ \E k \in DOMAIN cache.unit : cache.unit[k].vt = "ret"
  /\ stack # <<>>
  /\ Cardinality(Wires) >= 3

\* the unit keys the tree gives the block at blockPath, in the local or in
\* the public view
UnitKeysOf(blockPath, local) ==
  {u.key : u \in {v \in TreeUnits(tree, RootPath) :
                    /\ v.owner = blockPath
                    /\ (local \/ v.key \notin PrivateUnits(blockPath))}}

\* C17: the enumeration of a block proxy lists, each once, the unit keys of
\* its block (the public ones for a public proxy, all of them for a local
\* one, never "$" nor a nested block), calls no function and leaves the
\* caches as they were.
C17_EnumerationListsUnitKeys ==
  \A x \in DOMAIN heap :
    LET o == ownKeys(x, cache, heap, calls)
        listed == {o.keys[i] : i \in 1..Len(o.keys)}
    IN /\ listed = UnitKeysOf(x.path, x.local)
       /\ Len(o.keys) = Cardinality(listed)
       /\ o.calls = calls
       /\ o.cache = cache
       /\ o.heap = heap

C17_Witness ==
  \E x \in DOMAIN heap : \E y \in DOMAIN heap :
    /\ x.path = y.path /\ x.local /\ ~y.local
    /\ PrivateUnits(x.path) # {}
    /\ \E u \in TreeUnits(tree, RootPath) :
         /\ u.owner = x.path /\ KindOf(u.item) = "factory"
         /\ ~Has(cache.unit, FinalKey(u.owner, u.key))

\* the tagged blocks below a block, at every depth, each with its path
RECURSIVE TreeBlocks(_, _)
TreeBlocks(block, path) ==
  UNION {
    LET key == block.entries[i].key
        item == block.entries[i].item
        p == IF path = RootPath THEN <<key>> ELSE path \o <<key>>
    IN IF key # "$" /\ itemIsBlock(item)
       THEN {[path |-> p, block |-> item]} \cup TreeBlocks(item, p)
       ELSE {}
    : i \in 1..Len(block.entries)}

\* those of them that own a unit
UnitOwners ==
  {b \in TreeBlocks(tree, RootPath) :
     \E u \in TreeUnits(tree, RootPath) : u.owner = b.path}

EntrySet(blockDef) == {blockDef.entries[j] : j \in 1..Len(blockDef.entries)}

C19_RootInHub ==
  phase # "init" =>
    /\ HubHas(hub, RootPath)
    /\ RootPath \in Wires =>
         LET o == CallNow(RootPath, RootPath)
         IN /\ o.err = NoErr
            /\ o.px.path = RootPath
            /\ ~o.px.local

\* C20: defineUnit throws "Wrong unit definition value" exactly when one of
\* the bound, factory and async markers is set and the value is no function;
\* otherwise it returns a wrapper that holds the value and the options as
\* given; either way before any wireUp.
C20_DefineUnitChecksValue ==
  defined # NoDefined =>
    /\ phase = "init"
    /\ defined.threw <=>
         ((defined.isBound \/ defined.isFactory \/ defined.isAsync)
            /\ ~isFunction(defined.def))
    /\ defined.threw => defined.error = WrongUnitDefinition
    /\ ~defined.threw =>
         /\ isUnitDef(defined.unit)
         /\ defined.unit.id = defined.def.id
         /\ defined.unit.fn = defined.def.fn
         /\ defined.unit.afn = defined.def.afn
         /\ defined.unit.isBound = defined.isBound
         /\ defined.unit.isFactory = defined.isFactory
         /\ defined.unit.isAsync = defined.isAsync
         /\ defined.unit.isPrivate = defined.isPrivate

C20_Witness ==
  /\ defined.threw
  /\ ~defined.isBound
  /\ defined.isAsync
  /\ defined.isPrivate
  /\ ~isFunction(defined.def)

-----------------------------------------------------------------------------
(* C21..C30 *)

\* the function handed to defineUnit, carrying the same markers inline
InlineOf(d) == Fn(d.def.id, d.def.afn, d.isBound, d.isFactory, d.isAsync, d.isPrivate)

\* C21: a function with inline markers and the wrapper defineUnit makes of
\* the same function with the same markers are resolved alike: the get trap
\* takes the same step (call, bind, as is) and stores the same unit, the
\* pre-pass counts both or neither as asyncFactory, and both or neither are
\* private, for every combination of the four markers.
C21_EncodingsResolveAlike ==
  (defined # NoDefined /\ ~defined.threw /\ isFunction(defined.def)) =>
    LET inline == InlineOf(defined)
        wrapper == defined.unit
        wire == Wire(RootPath)
    IN /\ isFunction(inline) /\ isUnitDef(wrapper)
       /\ ResolutionStep(inline) = ResolutionStep(wrapper)
       /\ Resolved(inline, wire, 1) = Resolved(wrapper, wire, 1)
       /\ Returned(inline, wire, 1) = Returned(wrapper, wire, 1)
       /\ isAsyncItem(inline) <=> isAsyncItem(wrapper)
       /\ isPrivate(inline) <=> isPrivate(wrapper)

C21_Witness ==
  /\ ~defined.threw
  /\ isFunction(defined.def)
  /\ defined.isBound /\ defined.isFactory /\ ~defined.isAsync /\ defined.isPrivate
  /\ ResolutionStep(defined.unit) = "call"

\* the keys of the inputs the circuit of a plugin declares, and those its
\* adapter maps
RequiredInputs(circuit) == {k \in {"x", "y"} : HasKey(Get(circuit, "__inputs"), k)}

Adapted(adapter) == {k \in {"x", "y"} : HasKey(adapter, k)}

\* C22: plug throws when its adapter omits a key among the inputs the
\* circuit declares, and returns the plugin when every one of them is mapped.
C22_PlugChecksAdapter ==
  plugged # NoPlugged =>
    (plugged.threw <=>
       ~(RequiredInputs(plugged.circuit) \subseteq Adapted(plugged.adapter)))

\* the plugins the tree holds at its top level, each under its key
Plugins == {e \in EntrySet(tree) : e.item.t = "map" /\ HasKey(e.item, "__isPlugin")}

\* the blocks of the circuit a plugin wraps, the root of the circuit left out
PluggedBlocks(plugin) ==
  {b \in EntrySet(Get(Get(plugin, "__circuit"), "__hub")) : b.key # ""}

\* C23: in a session on a tree that holds, under p, a plugin whose adapter
\* maps the input x to the block foo of the tree, every block of the plugged
\* circuit is in the hub under p, and its wire called with "x" returns the
\* public proxy of foo.
C23_InputResolvesToAdapted ==
  phase # "init" =>
    \A e \in Plugins : \A b \in PluggedBlocks(e.item) :
      \A a \in EntrySet(Get(e.item, "__adapter")) :
        HubHas(hub, <<a.item.id>>) =>
          LET localPath == <<e.key, b.key>>
              o == getBlockProxy(localPath, <<a.key>>, cache, heap, hub)
          IN /\ HubHas(hub, localPath)
             /\ o.err = NoErr
             /\ o.px.path = <<a.item.id>>
             /\ ~o.px.local

\* the units the session s holds in its unit cache or in one of its proxies
Held(s) ==
  DOMAIN s.cache.unit \cup
    UNION {{FinalKey(x.path, prop) : prop \in DOMAIN s.heap[x].cachedblock} :
             x \in DOMAIN s.heap}

\* the session s resolved the unit under k itself: it called or bound the
\* function, or one of its own proxies stored the declared value
ResolvedBy(s, k) ==
  \/ Count(s.calls, k) >= 1
  \/ \E x \in DOMAIN s.heap :
       /\ FinalKey(x.path, k[Len(k)]) = k
       /\ Has(s.heap[x].cachedblock, k[Len(k)])
       /\ s.heap[x].cachedblock[k[Len(k)]].vt = "decl"

\* every proxy and wire the caches of s hold was made in s
OwnObjects(s) ==
  /\ \A k \in DOMAIN s.cache.proxy : s.cache.proxy[k] \in DOMAIN s.heap
  /\ \A k \in DOMAIN s.cache.localProxy : s.cache.localProxy[k] \in DOMAIN s.heap
  /\ \A k \in DOMAIN s.cache.wire : s.phase # "init"

\* C24: of two sessions, over one tree or over two, whose steps interleave
\* in any order, each holds only what it made itself: a unit is in the unit
\* cache or in a proxy of a session only if that session resolved it, so
\* that a unit resolved in one session is not thereby resolved in the other
\* and each session calls each of its factories on its own first read; and a
\* session has an empty cache until its own wireUp.
C24_SessionsShareNoCache ==
  \A s \in {Running, parked} :
    /\ \A k \in Held(s) : ResolvedBy(s, k)
    /\ OwnObjects(s)
    /\ s.phase = "init" => s.cache = NoCache

C24_Witness ==
  /\ tree = parked.tree
  /\ Has(cache.unit, <<"f">>)
  /\ cache.unit[<<"f">>].vt = "ret"
  /\ parked.phase = "ready"
  /\ ~Has(parked.cache.unit, <<"f">>)
  /\ Has(parked.cache.unit, <<"v">>)
  /\ parked.heap # EmptyMap

\* every asyncFactory of the tree was invoked and its awaited result stored
AllAsyncCompleted ==
  \A u \in TreeUnits(tree, RootPath) :
    KindOf(u.item) = "asyncFactory" =>
      /\ Count(calls, FinalKey(u.owner, u.key)) >= 1
      /\ Has(cache.unit, FinalKey(u.owner, u.key))
      /\ cache.unit[FinalKey(u.owner, u.key)].vt = "ret"

\* every promise the pre-pass awaits settles
EverySettles == (awaiting # NoAwait) ~> (awaiting = NoAwait)

\* C25: when every promise the pre-pass awaits settles, the promise wireUp
\* returned resolves, and by then every asyncFactory of the tree has been
\* invoked and has completed; when a promise the pre-pass awaits never
\* settles, the promise wireUp returned never resolves.
C25_ResolvesIffAllSettle ==
  /\ EverySettles => ((returned = "promise") ~> (phase = "ready" /\ AllAsyncCompleted))
  /\ <>[](awaiting # NoAwait) => [](phase # "ready")

C25_Witness ==
  /\ phase = "ready"
  /\ returned = "promise"
  /\ AllAsyncCompleted
  /\ heap # EmptyMap
  /\ \E k \in DOMAIN calls : calls[k] = 1 /\ Has(cache.unit, k) /\ cache.unit[k].vt = "ret"

\* C26: the wire mockUnit hands to the unit returns, for every path string,
\* what the map of fake blocks holds under that path, and under "" when it
\* is called without argument; it returns undefined for a path the map does
\* not hold, and it keeps nothing from one call to the next.
C26_FakeWireLooksUp ==
  mocked.called =>
    LET key == IF mocked.arg = Null THEN RootPath ELSE mocked.arg
    IN /\ mocked.got = IF Has(mocked.fakeBlocks, key)
                       THEN mocked.fakeBlocks[key]
                       ELSE Undefined
       /\ mocked.unit.wire = fakeWire(mocked.fakeBlocks)

\* C26, amended: the wire mockUnit hands to the unit returns, for every path
\* string, what the map of fake blocks holds under that path, and under ""
\* when it is called without argument; for a path the map does not hold it
\* returns undefined, unless the path is the name of a property every object
\* inherits, which it returns; it never fails and keeps nothing from one
\* call to the next.
C26_FakeWireLooksUpOwnOrInherited ==
  mocked.called =>
    LET key == IF mocked.arg = Null THEN RootPath ELSE mocked.arg
        own == Has(mocked.fakeBlocks, key)
        inherited == Len(key) = 1 /\ key[1] \in ObjectProtoKeys
    IN /\ own => mocked.got = mocked.fakeBlocks[key]
       /\ (~own /\ inherited) => mocked.got = Inherited(key[1])
       /\ (~own /\ ~inherited) => mocked.got = Undefined
       /\ mocked.unit.wire = fakeWire(mocked.fakeBlocks)

C26_Witness ==
  /\ mocked.called
  /\ mocked.arg = LocalKey
  /\ mocked.got = FakeBlock(".")
  /\ mocked.step = "bind"

\* the unit the get trap of a block proxy makes of def, with its first call
EngineUnit(def, wire) ==
  IF Dispatch(def) = "call" THEN Returned(def, wire, 1) ELSE Resolved(def, wire, 1)

\* C27: for every unit definition mockUnit takes the step the get trap of a
\* block proxy takes (it calls the function with the wire, binds it to the
\* wire, or returns the value as it is) and returns the unit the get trap
\* stores, the wire apart.
C27_MockResolvesAsEngine ==
  mocked # NoMocked =>
    /\ mocked.step = ResolutionStep(mocked.def)
    /\ mocked.unit.vt = EngineUnit(mocked.def, Wire(RootPath)).vt
    /\ mocked.unit.id = EngineUnit(mocked.def, Wire(RootPath)).id

\* a unit value has been handed out, or a function that is no asyncFactory
\* has been called or bound
SomethingObserved ==
  \/ \E x \in DOMAIN heap : heap[x].cachedblock # EmptyMap
  \/ \E u \in TreeUnits(tree, RootPath) :
       KindOf(u.item) # "asyncFactory" /\ Count(calls, FinalKey(u.owner, u.key)) >= 1

InFlight ==
  {FinalKey(u.owner, u.key) : u \in {v \in TreeUnits(tree, RootPath) :
     /\ KindOf(v.item) = "asyncFactory"
     /\ InProgress(FinalKey(v.owner, v.key))}}

\* C29: during the pre-pass at most one asyncFactory is in flight; the
\* asyncFactories are invoked once each, in the order of the hub keys and of
\* the declarations in a block, the next one only after the awaited result
\* of the one before is in the unit cache, so that a read of an earlier one
\* returns its resolved value.
C29_OneAsyncInFlight ==
  phase = "prepass" =>
    LET order == AsyncOrder(hub)
    IN /\ Cardinality(InFlight) <= 1
       /\ \A j \in 1..Len(order) :
            LET fkey == FinalKey(order[j].blockKey, order[j].key)
            IN /\ j > cursor => Count(calls, fkey) = 0
               /\ j = cursor => Count(calls, fkey) = 1
               /\ j < cursor =>
                    /\ Has(cache.unit, fkey)
                    /\ cache.unit[fkey].vt = "ret"
                    /\ \A x \in DOMAIN heap :
                         (x.path = order[j].blockKey /\ InSeq(order[j].key, heap[x].unitKeys))
                           => ReadNow(x, order[j].key).vt = "ret"

\* C30: whenever a block proxy holds, in its own cache, a value for the unit
\* u of its block, the unit cache of the session holds the same value under
\* the fully-qualified key of u.
C30_ProxyCacheAgreesWithUnitCache ==
  \A x \in DOMAIN heap : \A prop \in DOMAIN heap[x].cachedblock :
    /\ Has(cache.unit, FinalKey(x.path, prop))
    /\ cache.unit[FinalKey(x.path, prop)] = heap[x].cachedblock[prop]

-----------------------------------------------------------------------------
(* C31..C38 *)

\* the fully-qualified key of the j-th asyncFactory of the pre-pass
AsyncKey(j) == FinalKey(AsyncOrder(hub)[j].blockKey, AsyncOrder(hub)[j].key)

\* the promise wireUp returned has rejected with the error that the
\* asyncFactory the loops stand at threw or rejected with, and the pre-pass
\* runs no function
RejectedAtCursor ==
  /\ returned = "promise"
  /\ cursor \in 1..Len(AsyncOrder(hub))
  /\ awaiting.fkey = AsyncKey(cursor)
  /\ awaiting.val.vt = "error"
  /\ awaiting.val.id = Get(HubGet(hub, AsyncOrder(hub)[cursor].blockKey),
                           AsyncOrder(hub)[cursor].key).id
  /\ \A i \in 1..Len(stack) : stack[i].mode # "prepass"

\* the pre-pass has passed an asyncFactory only after it stored its value
PassedAreStored ==
  /\ \A j \in 1..Len(AsyncOrder(hub)) : j < cursor => Has(cache.unit, AsyncKey(j))
  /\ phase = "ready" => cursor > Len(AsyncOrder(hub))

\* once rejected the promise stays rejected, the loops stay where they are,
\* and a later asyncFactory is invoked by nothing but a read of it
StaysRejected ==
  /\ phase' = "rejected"
  /\ cursor' = cursor
  /\ awaiting' = awaiting
  /\ \A j \in 1..Len(AsyncOrder(hub)) :
       (j > cursor /\ Count(calls', AsyncKey(j)) > Count(calls, AsyncKey(j)))
         => /\ stack' # <<>>
            /\ stack'[Len(stack')].mode = "get"
            /\ stack'[Len(stack')].fkey = AsyncKey(j)

LatestCallThrew ==
  thrown # NoThrown /\ Count(calls, thrown.fkey) = thrown.n

\* C32: if a factory throws during the first read of its unit, the error
\* reaches the reader (the function that made the read, or the code outside
\* the units), nothing is stored for the unit in the cache of a proxy or in
\* the unit cache of the session, and a later read invokes the factory
\* again.
C32_ThrowLeavesNothingCached ==
  /\ [](LatestCallThrew =>
         /\ ~Has(cache.unit, thrown.fkey)
         /\ \A x \in DOMAIN heap :
              LET prop == thrown.fkey[Len(thrown.fkey)]
              IN x.path = Owner(thrown.fkey) =>
                   /\ ~Has(heap[x].cachedblock, prop)
                   /\ InSeq(prop, heap[x].unitKeys) =>
                        /\ ReadNow(x, prop) = NoValue
                        /\ Dispatch(Get(HubGet(hub, x.path), prop)) = "call")
  /\ [][thrown' # thrown =>
          /\ stack' = Front(stack)
          /\ thrown'.fkey = stack[Len(stack)].fkey
          /\ thrown'.to = (IF stack' = <<>> THEN Null ELSE stack'[Len(stack')].fkey)
          /\ cache' = cache
          /\ heap' = heap]_vars

\* the factory threw in its first call and a later read has invoked it again
C32_Witness ==
  /\ thrown # NoThrown
  /\ thrown.n = 1
  /\ Count(calls, thrown.fkey) = 2
  /\ stack # <<>>
  /\ Top.fkey = thrown.fkey
  /\ Top.mode = "get"

\* the plugins a block holds, in itself and in the blocks below it (tagged
\* or named "$name") at every depth, each with its dot-joined path
RECURSIVE Embedded(_, _)
Embedded(block, parent) ==
  UNION {
    LET key == block.entries[i].key
        item == block.entries[i].item
        name == IF isPrefixedKey(key) THEN slice1(key) ELSE key
        path == IF parent = "" THEN name ELSE parent \o "." \o name
    IN IF key = "$" \/ ~isHashmap(item) THEN {}
       ELSE IF isPlugin(item) THEN {[path |-> path, plugin |-> item]}
       ELSE IF isPrefixedKey(key) \/ itemIsBlock(item) THEN Embedded(item, path)
       ELSE {}
    : i \in 1..Len(block.entries)}

\* the adapters map holds adapter under path
Recorded(adapters, path, adapter) ==
  \E i \in 1..Len(adapters) : adapters[i].path = path /\ adapters[i].def = adapter

\* C33: the adapter scan of defineCircuit records every plugin embedded in
\* the tree under its full dot-joined path from the root of the circuit, at
\* any depth of blocks, and records every entry of the adapter map of the
\* plugin's inner circuit under that path, a dot and the inner path.
C33_AdaptersUnderFullPath ==
  made # NoMade =>
    \A e \in Embedded(made.mainBlock, "") :
      LET inner == Get(Get(e.plugin, "__circuit"), "__pluginAdapters").entries
      IN /\ Recorded(made.circuit.__pluginAdapters, e.path, AdapterOf(e.plugin))
         /\ \A j \in 1..Len(inner) :
              Recorded(made.circuit.__pluginAdapters,
                       e.path \o "." \o inner[j].key, inner[j].item)

\* C34: every value plug returns is recognised by isPlugin, and is therefore
\* found by the adapter scan of defineCircuit, which records its adapter,
\* when it is embedded in the block handed to defineCircuit.
C34_PlugResultIsPlugin ==
  (plugged # NoPlugged /\ ~plugged.threw) =>
    /\ isPlugin(plugged.plugin)
    /\ made.mainBlock \in CircuitBlocks(plugged.plugin) =>
         \E i \in 1..Len(made.circuit.__pluginAdapters) :
           made.circuit.__pluginAdapters[i].def = plugged.adapter

\* C35: wireUp, defineBlock and the flattening pass only read the tree the
\* caller passed in: no step of a session gives that object a key or a value
\* it did not have, so after wireUp it has the keys and values it had before.
C35_TreeOnlyRead == [][tree' = tree]_vars

MarkedPrivate(item) ==
  \/ item.t = "unit" /\ item.enc = "func" /\ item.isPrivate
  \/ item.t = "unit" /\ item.enc = "def" /\ item.isPrivate

\* the keys of the units of a block, in the order of their declaration
LocalList(blockDef) ==
  SelectSeq(Keys(blockDef), LAMBDA key : key # "$" /\ ~itemIsBlock(Get(blockDef, key)))

\* C37: a unit is private exactly when it is a function that carries
\* isPrivate === true or a defineUnit wrapper whose option isPrivate is set;
\* a value that is no function and has an isPrivate property is public; the
\* public key list of a block is its local key list without its private
\* units, and without nothing else.
C37_PrivateByMarker ==
  /\ \A u \in TreeUnits(tree, RootPath) : isPrivate(u.item) <=> MarkedPrivate(u.item)
  /\ \A x \in DOMAIN heap :
       LET blockDef == HubGet(hub, x.path)
       IN heap[x].unitKeys =
            IF x.local THEN LocalList(blockDef)
            ELSE SelectSeq(LocalList(blockDef),
                           LAMBDA key : ~MarkedPrivate(Get(blockDef, key)))

\* proxies of both views of a block that declares a private function and an
\* object with an isPrivate property: the public one lists the object only
C37_Witness ==
  \E x, y \in DOMAIN heap :
    /\ x.path = RootPath /\ ~x.local
    /\ y.path = RootPath /\ y.local
    /\ InSeq("pub2", heap[x].unitKeys)
    /\ ~InSeq("priv1", heap[x].unitKeys)
    /\ InSeq("priv1", heap[y].unitKeys)

\* what the walk meets below a block: the "$name" entries and the tagged
\* blocks, each with its path and the path of the block that holds it
RECURSIVE Met(_, _)
Met(block, parent) ==
  UNION { LET e == block.entries[i]
              name == IF isPrefixedKey(e.key) THEN slice1(e.key) ELSE e.key
              path == IF parent # "" THEN parent \o "." \o name ELSE name
              here == {[key |-> e.key, item |-> e.item, path |-> path, owner |-> parent]}
          IN IF e.key = "$" THEN {}
             ELSE IF isPrefixedKey(e.key)
                  THEN here \cup (IF e.item.t = "map" THEN Met(e.item, path) ELSE {})
                  ELSE IF isBlock(e.item) THEN here \cup Met(e.item, path) ELSE {}
        : i \in 1..Len(block.entries) }

IsOwnUnit(e) == ~isPrefixedKey(e.key) /\ ~isBlock(e.item)

HasOwnUnits(item) == \E i \in 1..Len(item.entries) : IsOwnUnit(item.entries[i])

\* mapped holds at path exactly the own units of item
RecordedAs(mapped, path, item) ==
  \E i \in 1..Len(mapped) :
    /\ mapped[i].path = path
    /\ \A j \in 1..Len(item.entries) :
         IsOwnUnit(item.entries[j]) <=>
           /\ HasKey(mapped[i].def, item.entries[j].key)
           /\ Get(mapped[i].def, item.entries[j].key) = item.entries[j].item
    /\ \A j \in 1..Len(mapped[i].def.entries) :
         HasKey(item, mapped[i].def.entries[j].key)

====
